---- MODULE Spec2Model ----
(***************************************************************************)
(* A model of the query engine of zotero-cli (src/src/zotero/__init__.py): *)
(* the filter compiler and evaluator (ZoteroCLI._filter), the ranking      *)
(* iteration, the limit/sort composition (ZoteroCLI._items) and the marks  *)
(* (ZoteroCLI._marks).                                                     *)
(*                                                                         *)
(* Conventions.                                                            *)
(*  - Python strings that the code parses or searches are sequences of     *)
(*    one-character strings (<<"=", ">", "5">>); field names, which the    *)
(*    code only compares, are TLA+ strings.                                *)
(*  - Python floats are exact rationals <<n, d>> (d > 0, lowest terms).    *)
(*  - A datetime is its timestamp, an integer number of ticks;             *)
(*    TicksPerYear ticks make a calendar year.  The date string "" is      *)
(*    the value NoDate, BadDate is a date string that ts.dateparse does    *)
(*    not parse; every other date string of the model parses.              *)
(*  - An item key is an integer 1..NumItems; self.items holds the items    *)
(*    in key order.  A relation link is the key it ends with.              *)
(*  - The field pages of an item is <<>> when its data has neither         *)
(*    'numPages' nor 'pages', and <<text>> when it has one of them.        *)
(***************************************************************************)
EXTENDS Integers, Sequences, FiniteSets, TLC

\* ------------------------------------------------------------------ bounds
\* the number of items of the library
NumItems == 3
\* the number of ticks of the clock in a year
TicksPerYear == 2
\* the greatest number N of a limit
MaxLimit == 2

\* ------------------------------------------------------- program constants
SentinelYear == 1900
DefaultOrder == 3

Keys == 1 .. NumItems
UnresolvedKey == NumItems + 1
NoDate == 0 - 1
BadDate == 0 - 2
DtZero == SentinelYear * TicksPerYear

\* ------------------------------------------------------------- sequences
Range(s) == {s[i] : i \in DOMAIN s}

\* the keys at which the function of booleans b is TRUE, in the order of self.items
SelectKeys(b) ==
    LET acc[i \in 0 .. NumItems] ==
            IF i = 0 THEN <<>>
            ELSE IF b[i] THEN Append(acc[i - 1], i) ELSE acc[i - 1]
    IN  acc[NumItems]

Reverse(s) == [i \in 1 .. Len(s) |-> s[Len(s) + 1 - i]]

Take(s, m) == SubSeq(s, 1, IF m < Len(s) THEN m ELSE Len(s))

\* ------------------------------------------------------------- rationals
Abs(x) == IF x < 0 THEN 0 - x ELSE x

RECURSIVE Gcd(_, _)
Gcd(a, b) == IF b = 0 THEN a ELSE Gcd(b, a % b)

Rat(n, d) ==
    LET g == Gcd(Abs(n), Abs(d))
        s == IF d < 0 THEN 0 - 1 ELSE 1
    IN  IF n = 0 THEN <<0, 1>> ELSE <<(s * n) \div g, (s * d) \div g>>

RZero == <<0, 1>>
ROne == <<1, 1>>
RAdd(a, b) == Rat(a[1] * b[2] + b[1] * a[2], a[2] * b[2])
RMul(a, b) == Rat(a[1] * b[1], a[2] * b[2])
RDiv(a, b) == Rat(a[1] * b[2], a[2] * b[1])
RLe(a, b) == a[1] * b[2] <= b[1] * a[2]
RLt(a, b) == a[1] * b[2] < b[1] * a[2]

RECURSIVE RPow(_, _)
RPow(a, e) == IF e = 0 THEN ROne ELSE RMul(a, RPow(a, e - 1))

RMax(S) == CHOOSE m \in S : \A x \in S : RLe(x, m)
IMin(S) == CHOOSE m \in S : \A x \in S : m <= x
IMax(S) == CHOOSE m \in S : \A x \in S : x <= m

\* --------------------------------------------------------------- strings
Digits == <<"0", "1", "2", "3", "4", "5", "6", "7", "8", "9">>
IsDigit(c) == c \in Range(Digits)
DigitVal(c) == (CHOOSE i \in DOMAIN Digits : Digits[i] = c) - 1
AllDigits(s) == \A i \in DOMAIN s : IsDigit(s[i])

RECURSIVE StrToInt(_)
StrToInt(s) ==
    IF s = <<>> THEN 0
    ELSE 10 * StrToInt(SubSeq(s, 1, Len(s) - 1)) + DigitVal(s[Len(s)])

RECURSIVE NatToStr(_)
NatToStr(m) ==
    IF m < 10 THEN <<Digits[m + 1]>>
    ELSE NatToStr(m \div 10) \o <<Digits[(m % 10) + 1]>>

IntToStr(m) == IF m < 0 THEN <<"-">> \o NatToStr(0 - m) ELSE NatToStr(m)

UpperOf == [a |-> "A", b |-> "B", j |-> "J", k |-> "K", t |-> "T"]
IsUpper(c) == \E l \in DOMAIN UpperOf : UpperOf[l] = c
IsLowerOrDigit(c) == IsDigit(c) \/ c \in {"a", "b", "c", "e", "i", "j", "k", "l",
                                          "n", "o", "r", "t", "u", "x"}
LowerChar(c) == IF IsUpper(c) THEN CHOOSE l \in DOMAIN UpperOf : UpperOf[l] = c ELSE c
Lower(s) == [i \in DOMAIN s |-> LowerChar(s[i])]

\* re.search with re.I of a pattern made of literal characters and of "." (any
\* character)
Search(pat, s) ==
    \E i \in 0 .. (Len(s) - Len(pat)) :
        \A j \in DOMAIN pat :
            pat[j] = "." \/ LowerChar(s[i + j]) = LowerChar(pat[j])

RECURSIVE Join(_, _)
Join(sep, ss) ==
    IF ss = <<>> THEN <<>>
    ELSE IF Len(ss) = 1 THEN ss[1]
    ELSE ss[1] \o sep \o Join(sep, Tail(ss))

\* str.split(sep) for a one-character separator
RECURSIVE Split(_, _)
Split(s, sep) ==
    IF \A i \in DOMAIN s : s[i] # sep THEN <<s>>
    ELSE LET i == CHOOSE j \in DOMAIN s :
                      s[j] = sep /\ \A h \in 1 .. (j - 1) : s[h] # sep
         IN  <<SubSeq(s, 1, i - 1)>> \o Split(SubSeq(s, i + 1, Len(s)), sep)

\* ------------------------------------------------------------- constants
OPERATORS == {<<"=", "=">>, <<"<">>, <<"<", "=">>, <<">">>, <<">", "=">>}

INTEGER_FIELDS == {"callNumber", "citations", "numAttachments", "numAuthors",
                   "numCreators", "numEditors", "numNotes", "numAnnotations",
                   "numPages", "rank", "references", "year", "zscc"}
NOTE_FIELDS == {"comments", "results", "what"}
MARKERS == <<<<"read", "unread">>, <<"irrelevant", "relevant">>, <<"ignore", "unignore">>>>
OBJECTS == <<"attachments", "notes", "annotations">>
CACHE_FILES == <<"collections", "items", "marks">> \o OBJECTS

Dash == <<"-">>
EmptyWord == <<"<", "e", "m", "p", "t", "y", ">">>

Apply(op, a, b) ==
    CASE op = <<"=", "=">> -> a = b
      [] op = <<"<">>      -> a < b
      [] op = <<"<", "=">> -> a <= b
      [] op = <<">">>      -> a > b
      [] op = <<">", "=">> -> a >= b

RApply(op, a, b) ==
    CASE op = <<"=", "=">> -> a = b
      [] op = <<"<">>      -> RLt(a, b)
      [] op = <<"<", "=">> -> RLe(a, b)
      [] op = <<">">>      -> RLt(b, a)
      [] op = <<">", "=">> -> RLe(b, a)

\* ------------------------------------------------------------------ state
VARIABLES
    items,   \* self.items: key -> the raw data of the item
    marks,   \* self.marks: marker -> list of keys (a dict: absent markers are absent)
    ranks,   \* self.ranks: key -> float
    pc,      \* position of the running query in ZoteroCLI._items
    q,       \* the arguments of the running call
    loc,     \* the locals of _items: fields, ffields, sort, limit, lfield, lfdesc, age, order
    cand,    \* the local `items` of _items: the keys of the dict, in insertion order
    prev,    \* the local `prev` of the ranking loop
    n,       \* the number of passes of the ranking loop done so far
    conv,    \* whether the loop left through the convergence break
    res,     \* what the call returned or raised
    cache,   \* the cache directory: the files it holds, and what is in them
    objs     \* self.attachments, self.notes, self.annotations: attribute -> list

vars == <<items, marks, ranks, pc, q, loc, cand, prev, n, conv, res, cache, objs>>

\* ------------------------------------------------------ the cached library
RawFields == {"key", "title", "date", "itemType", "tags", "url", "relations"}

\* ZoteroCLI.__init__: the valid fields are the raw fields seen plus the computed ones
ValidFields ==
    RawFields \cup {"abstractShortNote", "attachments", "authors", "editors",
                    "firstAuthor", "selected"} \cup INTEGER_FIELDS \cup NOTE_FIELDS

\* ZoteroCLI.__init__: the valid tags are the tags seen on the items
ValidTags == UNION {Range(items[k].tags) : k \in Keys}

\* --------------------------------------------------- the cache directory
\* the i-th child zotero.org gives for the item k is <<k, i>>; its itemType is
\* items[k].children[i]
TypeOf(c) == items[c[1]].children[c[2]]

\* f"{t}s"
Plural(t) ==
    CASE t = "attachment" -> "attachments"
      [] t = "note"       -> "notes"
      [] t = "annotation" -> "annotations"

\* the children met by the loops over self.items and over the children of each item
AllChildren ==
    LET acc[k \in 0 .. NumItems] ==
            IF k = 0 THEN <<>>
            ELSE acc[k - 1] \o [i \in DOMAIN items[k].children |-> <<k, i>>]
    IN  acc[NumItems]

\* what these loops append to the list attr
Fetched(attr) == SelectSeq(AllChildren, LAMBDA c : Plural(TypeOf(c)) = attr)

\* ZoteroCLI.reset(reset_items): the cache files removed; marks.json is never
RemoveFiles(c, reset_items) ==
    LET skip(k) == (reset_items /\ k \notin {"items"} \cup Range(OBJECTS)) \/ k = "marks"
        kept    == {k \in c.files : skip(k)}
    IN  [c EXCEPT !.files = kept,
                  !.objects = [a \in Range(OBJECTS) |-> IF a \in kept THEN @[a] ELSE <<>>]]

\* `if reset: self.reset()` in __init__: reset() is called without an argument,
\* whatever reset_items the keywords of __init__ hold
ResetCalled(c) == RemoveFiles(c, FALSE)

\* one turn of the loop of __init__ over CACHE_FILES, st being the cache directory
\* and the attributes set so far: the file k is loaded, or fetched and written
LoadFile(k, st) ==
    LET fetched == [a \in Range(OBJECTS) |->
                       (IF a \in DOMAIN st.objs THEN st.objs[a] ELSE <<>>) \o Fetched(a)]
        files   == st.cache.files \cup {k}
    IN  IF k = "marks" THEN st
        ELSE IF k \in st.cache.files THEN
            IF k \notin Range(OBJECTS) THEN st
            ELSE [st EXCEPT !.objs = [a \in DOMAIN st.objs \cup {k} |->
                                         IF a = k THEN st.cache.objects[k] ELSE st.objs[a]]]
        ELSE IF k \notin Range(OBJECTS) THEN [st EXCEPT !.cache.files = files]
        ELSE [cache |-> [st.cache EXCEPT !.files = files, !.objects[k] = fetched[k]],
              objs  |-> fetched]

RECURSIVE LoadFrom(_, _)
LoadFrom(todo, st) ==
    IF todo = <<>> THEN st ELSE LoadFrom(Tail(todo), LoadFile(Head(todo), st))

\* ZoteroCLI.__init__ from `if reset:` on, c being the cache directory as it took
\* it: the directory it leaves, and the attributes attachments, notes, annotations
\* and marks of the instance (none is set when stop is given)
Construct(c, reset, stop) ==
    LET c1 == IF reset THEN ResetCalled(c) ELSE c
        st == LoadFrom(CACHE_FILES, [cache |-> c1, objs |-> <<>>])
        c2 == IF "marks" \in st.cache.files THEN st.cache
              ELSE [st.cache EXCEPT !.files = @ \cup {"marks"}, !.marks = <<>>]
    IN  IF stop THEN [cache |-> c1, objs |-> <<>>, marks |-> <<>>]
        ELSE [cache |-> c2, objs |-> st.objs, marks |-> c2.marks]

\* len([x for x in self.<attr> if x['data']['parentItem'] == i['key']])
NumOf(attr, k) == Len(SelectSeq(objs[attr], LAMBDA c : c[1] = k))

\* ZoteroCLI.date on a date string of the library that is "" (1900-01-01) or parses
Date(d) == IF d = NoDate THEN DtZero ELSE d

\* ZoteroCLI.date(d, data) on any date string: what it raises, or "".  On a string
\* that does not parse, the message is built with ZoteroCLI.title(data), which fails
\* on a data that is a string (the "sort per ..." of ZoteroCLI.sort); then the static
\* method names self, which it does not have.
DateErr(d, data) ==
    IF d # BadDate THEN ""
    ELSE IF data = "str" THEN "AttributeError"
    ELSE "NameError"

YearOf(ts) == ts \div TicksPerYear

\* the derived field year
Year(k) == IF items[k].date = NoDate THEN SentinelYear ELSE YearOf(Date(items[k].date))

\* the derived fields citations and references: <<c, r>>.  The KeyError of an
\* unresolvable link is caught outside the loop over the links, which it ends.
RECURSIVE CountLinks(_, _, _)
CountLinks(k, links, acc) ==
    IF links = <<>> THEN acc
    ELSE IF Head(links) \notin Keys THEN acc
    ELSE LET t == Head(links)
             c == IF Date(items[t].date) > Date(items[k].date) THEN 1 ELSE 0
             r == IF Date(items[t].date) <= Date(items[k].date) THEN 1 ELSE 0
         IN  CountLinks(k, Tail(links), <<acc[1] + c, acc[2] + r>>)

Citations(k) == CountLinks(k, items[k].rel, <<0, 0>>)[1]
References(k) == CountLinks(k, items[k].rel, <<0, 0>>)[2]

\* what the loop over the links of item k raises: the dates of the target and of
\* the item are parsed for every link met before the first unresolvable one
RECURSIVE LinksRaise(_, _)
LinksRaise(k, links) ==
    IF links = <<>> THEN ""
    ELSE IF Head(links) \notin Keys THEN ""
    ELSE IF DateErr(items[Head(links)].date, "item") # ""
        THEN DateErr(items[Head(links)].date, "item")
    ELSE IF DateErr(items[k].date, "item") # "" THEN DateErr(items[k].date, "item")
    ELSE LinksRaise(k, Tail(links))

\* what the computation of the derived fields of the temporary item k raises
DeriveRaises(k, af) ==
    IF {"citations", "references"} \cap af # {} /\ LinksRaise(k, items[k].rel) # ""
        THEN LinksRaise(k, items[k].rel)
    ELSE IF "year" \in af THEN DateErr(items[k].date, "item")
    ELSE ""

\* the longest prefix of s made of characters of the set cs
RECURSIVE LeadOf(_, _)
LeadOf(s, cs) ==
    IF s = <<>> \/ Head(s) \notin cs THEN <<>> ELSE <<Head(s)>> \o LeadOf(Tail(s), cs)

\* s without that prefix
Drop(s, cs) == SubSeq(s, Len(LeadOf(s, cs)) + 1, Len(s))

\* re.match(r"(\d+)(?:\s*[\-...]+\s*(\d+))?$", p): the groups <<s, e>>, e being <<>>
\* when the second group took no part, or <<>> when p does not match.  The hyphen
\* is the one dash of the model and the space its one white space.
PagesMatch(p) ==
    LET first == LeadOf(p, Range(Digits))
        after == Drop(p, Range(Digits))
        dashes == Drop(after, {" "})
        last == Drop(Drop(dashes, {"-"}), {" "})
    IN  IF first = <<>> THEN <<>>
        ELSE IF after = <<>> THEN <<first, <<>>>>
        ELSE IF LeadOf(dashes, {"-"}) # <<>> /\ last # <<>> /\ AllDigits(last)
            THEN <<first, last>>
        ELSE <<>>

\* a variant of NumPagesOf without abs()
NumPagesSigned(pg) ==
    LET p == IF pg = <<>> \/ pg[1] = <<>> THEN <<"0">> ELSE pg[1]
        m == PagesMatch(p)
        d == StrToInt(m[1]) - StrToInt(m[2])
    IN  IF m = <<>> THEN 0 - 1
        ELSE IF d = 0 THEN 0 - 1 ELSE d

\* the derived field numPages of an item whose pages are pg
NumPagesOf(pg) ==
    LET p == IF pg = <<>> \/ pg[1] = <<>> THEN <<"0">> ELSE pg[1]
        m == PagesMatch(p)
        d == Abs(StrToInt(m[1]) - StrToInt(m[2]))
    IN  IF m = <<>> THEN 0 - 1
        ELSE IF d = 0 THEN 0 - 1 ELSE d

\* --------------------------------------------------------- _format_value
VStr(v) == [t |-> "str", v |-> v]
VInt(v) == [t |-> "int", v |-> v]
VDate(v) == [t |-> "date", v |-> v]
VRat(v) == [t |-> "rat", v |-> v]
VNone == [t |-> "none", v |-> <<>>]

\* the two re.sub of the itemType branch, then lower()
RECURSIVE SpaceCamel(_, _)
SpaceCamel(s, i) ==
    IF i > Len(s) THEN <<>>
    ELSE LET c == s[i]
             gap == /\ i > 1
                    /\ IsUpper(c)
                    /\ \/ (i < Len(s) /\ ~IsUpper(s[i + 1]) /\ ~IsDigit(s[i + 1])
                               /\ s[i + 1] # " ")
                       \/ IsLowerOrDigit(s[i - 1])
         IN  (IF gap THEN <<" ">> ELSE <<>>) \o <<c>> \o SpaceCamel(s, i + 1)

\* a variant of FormatItemType that does not lower the case
FormatItemTypeNoLower(s) == SpaceCamel(s, 1)

FormatItemType(s) == Lower(SpaceCamel(s, 1))

\* f"{x:.3f}" of a rational x >= 0: round to the nearest thousandth
Format3(x) ==
    LET m == (2 * 1000 * x[1] + x[2]) \div (2 * x[2])
        frac == NatToStr(m % 1000)
        pad == IF Len(frac) = 1 THEN <<"0", "0">> ELSE IF Len(frac) = 2 THEN <<"0">> ELSE <<>>
    IN  NatToStr(m \div 1000) \o <<".">> \o pad \o frac

\* float(s) of "digits" or "digits.digits"
ParseFloat(s) ==
    LET parts == Split(s, ".")
    IN  IF Len(parts) = 1 THEN Rat(StrToInt(parts[1]), 1)
        ELSE RAdd(Rat(StrToInt(parts[1]), 1),
                  Rat(StrToInt(parts[2]),
                      RPow(<<10, 1>>, Len(parts[2]))[1]))

IsFloatText(s) ==
    LET parts == Split(s, ".")
    IN  \/ (s # <<>> /\ AllDigits(s))
        \/ (Len(parts) = 2 /\ AllDigits(parts[1]) /\ parts[2] # <<>> /\ AllDigits(parts[2]))

\* a mapping of a creator, and a list of them
VDict(name, lastName, firstName) ==
    [t |-> "dict", v |-> [name |-> name, lastName |-> lastName, firstName |-> firstName]]
VDicts(ds) == [t |-> "dicts", v |-> ds]

\* str.strip() of the spaces
RECURSIVE Strip(_)
Strip(s) ==
    IF s = <<>> THEN s
    ELSE IF Head(s) = " " THEN Strip(Tail(s))
    ELSE IF s[Len(s)] = " " THEN Strip(SubSeq(s, 1, Len(s) - 1))
    ELSE s

PersonFields == {"authors", "creators", "editors", "firstAuthor"}

\* str(v) of a mapping d, written without its quotes and colons
DictStr(d) ==
    <<"{">> \o d.name \o <<";">> \o d.lastName \o <<";">> \o d.firstName \o <<"}">>

\* the branch of the mappings
FormatDict(d, field) ==
    IF field \in PersonFields
    THEN (IF d.name # <<>> THEN d.name ELSE Strip(d.lastName \o <<" ">> \o d.firstName))
    ELSE DictStr(d)

\* float(s) takes the text of a number, with a sign or without
IsFloatArg(s) == IsFloatText(s) \/ (s # <<>> /\ Head(s) = "-" /\ IsFloatText(Tail(s)))

\* f"{float(s):.3f}" of such a text
Format3Text(s) ==
    IF Head(s) = "-" THEN <<"-">> \o Format3(ParseFloat(Tail(s))) ELSE Format3(ParseFloat(s))

\* what _format_value(value, field) raises, or ""
FormatRaises(v, field) ==
    CASE field = "tags" -> IF v.t \in {"str", "list"} THEN "" ELSE "TypeError"
      [] field = "itemType" -> IF v.t = "str" THEN "" ELSE "TypeError"
      [] field = "rank" ->
            IF v.t = "str" THEN (IF v.v = <<>> \/ IsFloatArg(v.v) THEN "" ELSE "ValueError")
            ELSE IF v.t \in {"list", "dicts"} THEN (IF v.v = <<>> THEN "" ELSE "TypeError")
            ELSE IF v.t = "dict" THEN "TypeError"
            ELSE ""
      [] OTHER -> ""

\* _format_value(value, field): the value as a string
FormatValue(v, field) ==
    CASE field = "tags" ->
            IF v.t = "str" THEN v.v ELSE Join(<<";">>, v.v)
      [] field = "itemType" -> FormatItemType(v.v)
      [] field = "rank" ->
            IF v.t = "rat" THEN Format3(v.v)
            ELSE IF v.t = "str" /\ v.v # <<>> THEN Format3Text(v.v)
            ELSE IF v.t = "int" /\ v.v > 0 THEN Format3(Rat(v.v, 1))
            ELSE IF v.t = "int" /\ v.v < 0 THEN <<"-">> \o Format3(Rat(0 - v.v, 1))
            ELSE Format3(RZero)
      [] field = "year" ->
            IF v.t = "int" THEN (IF v.v = SentinelYear THEN Dash ELSE IntToStr(v.v))
            ELSE IF v.t = "none" THEN <<"N", "o", "n", "e">>
            ELSE v.v
      [] OTHER ->
            IF v.t = "int" THEN (IF v.v < 0 THEN Dash ELSE IntToStr(v.v))
            ELSE IF v.t = "list" THEN
                Join(IF field = "attachments" THEN <<";">> ELSE <<",", " ">>, v.v)
            ELSE IF v.t = "dicts" THEN
                Join(IF field = "attachments" THEN <<";">> ELSE <<",", " ">>,
                     [i \in DOMAIN v.v |-> FormatDict(v.v[i], field)])
            ELSE IF v.t = "dict" THEN FormatDict(v.v, field)
            ELSE IF v.t = "none" THEN <<"N", "o", "n", "e">>
            ELSE v.v

\* ------------------------------------------------- _filter: the temporary item
KeyStr(k) == <<"K">> \o NatToStr(k)

\* tmp_i['data'].get(f) where afields are the fields asked for plus the filtered ones
Get(k, f, af) ==
    IF f = "zscc" THEN VInt(0 - 1)
    ELSE IF f \in RawFields /\ f \in af THEN
        CASE f = "key"      -> VStr(KeyStr(k))
          [] f = "title"    -> VStr(items[k].title)
          [] f = "date"     -> VDate(items[k].date)
          [] f = "itemType" -> VStr(FormatValue(VStr(items[k].itemType), f))
          [] f = "tags"     -> VStr(FormatValue([t |-> "list", v |-> items[k].tags], f))
          [] f = "url"      -> VStr(items[k].url)
          [] OTHER          -> VStr(<<"{", "}">>)
    ELSE IF f = "year" /\ f \in af THEN VInt(Year(k))
    ELSE IF f = "numPages" /\ f \in af THEN VInt(NumPagesOf(items[k].pages))
    ELSE IF f = "numAttachments" /\ f \in af THEN VInt(NumOf("attachments", k))
    ELSE IF f = "numNotes" /\ f \in af THEN VInt(NumOf("notes", k))
    ELSE IF f = "numAnnotations" /\ f \in af THEN VInt(NumOf("annotations", k))
    ELSE IF f = "citations" /\ {"citations", "references"} \cap af # {} THEN VInt(Citations(k))
    ELSE IF f = "references" /\ {"citations", "references"} \cap af # {} THEN VInt(References(k))
    ELSE VNone

\* Python truthiness of a value
Truthy(v) ==
    CASE v.t = "none" -> FALSE
      [] v.t = "int"  -> v.v # 0
      [] v.t = "rat"  -> v.v # RZero
      [] v.t = "date" -> v.v # NoDate
      [] OTHER        -> v.v # <<>>

\* ------------------------------------------------- _filter: making the filters
IsIntText(r) == r # <<>> /\ AllDigits(r)
HasNoEq(r) == \A i \in DOMAIN r : r[i] # "="

\* ts.dateparse on the operand of a date filter: a four-digit year parses
DateParses(text) == Len(text) = 4 /\ AllDigits(text)
DateParse(text) == StrToInt(text) * TicksPerYear

\* what follows the prefix a of regex
Rest(regex, a) == SubSeq(regex, Len(a) + 1, Len(regex))

\* the alternatives of a regex group (a|b|...) that regex starts with
PrefixOps(regex, alts) ==
    {a \in alts : Len(a) <= Len(regex) /\ SubSeq(regex, 1, Len(a)) = a}

\* the operators with which ^(|<|>|<=|>=|==)\d+$ matches regex
IntOps(regex) ==
    {a \in PrefixOps(regex, OPERATORS \cup {<<>>}) : IsIntText(Rest(regex, a))}

\* the operators with which ^(<|>|<=|>=|==)([^=]*)$ matches regex
DateOps(regex) == {a \in PrefixOps(regex, OPERATORS) : HasNoEq(Rest(regex, a))}

\* the operators with which ^(<|>|<=|>=|==)(\d+|\d*\.\d+)$ matches regex
RankOps(regex) == {a \in PrefixOps(regex, OPERATORS) : IsFloatText(Rest(regex, a))}

StartsWithDate(field) == field \in {"date", "dateAdded", "dateModified"}

Filt(err, cls, f, op, num, rat) ==
    [err |-> err, cls |-> cls, neg |-> f.neg, field |-> f.field, op |-> op,
     num |-> num, rat |-> rat, pat |-> f.regex]

\* one turn of the loop over the filter expressions: the tuple made, or what is raised
MakeFilter(f) ==
    LET regex == f.regex
        intM  == IntOps(regex)
        dateM == DateOps(regex)
        rankM == RankOps(regex)
        rest(M) == Rest(regex, CHOOSE a \in M : TRUE)
        opOf(M) == LET a == CHOOSE a \in M : TRUE
                   IN  IF a = <<>> THEN <<"=", "=">> ELSE a
    IN  IF regex = <<>> THEN Filt("ValueError", "", f, <<>>, 0, RZero)
        ELSE IF f.field \in INTEGER_FIELDS \ {"rank"} /\ intM # {} THEN
            Filt("", "int", f, opOf(intM), StrToInt(rest(intM)), RZero)
        ELSE IF StartsWithDate(f.field) THEN
            IF regex \in {Dash, EmptyWord} THEN
                Filt("", "date", f, <<"=", "=">>, DtZero, RZero)
            ELSE IF dateM = {} THEN Filt("AttributeError", "", f, <<>>, 0, RZero)
            ELSE IF rest(dateM) = <<>> THEN
                Filt("", "date", f, opOf(dateM), DtZero, RZero)
            ELSE IF ~DateParses(rest(dateM)) THEN Filt("NameError", "", f, <<>>, 0, RZero)
            ELSE Filt("", "date", f, opOf(dateM), DateParse(rest(dateM)), RZero)
        ELSE IF f.field = "rank" THEN
            IF rankM = {} THEN Filt("AttributeError", "", f, <<>>, 0, RZero)
            ELSE Filt("", "rank", f, opOf(rankM), 0, ParseFloat(rest(rankM)))
        ELSE IF f.field = "tags" THEN
            IF regex \notin ValidTags /\ regex \notin {Dash, EmptyWord}
            THEN Filt("ValueError", "", f, <<>>, 0, RZero)
            ELSE Filt("", "tags", f, <<>>, 0, RZero)
        ELSE IF regex \in {Dash, EmptyWord} THEN Filt("", "empty", f, <<>>, 0, RZero)
        ELSE Filt("", "regex", f, <<>>, 0, RZero)


MakeFilters(filters) == [i \in DOMAIN filters |-> MakeFilter(filters[i])]

\* _filters: a dict field -> list of filters; its items() go field by field, the
\* fields in the order of their first filter
FilterKeys(filters) ==
    LET acc[i \in 0 .. Len(filters)] ==
            IF i = 0 THEN <<>>
            ELSE IF filters[i].field \in Range(acc[i - 1]) THEN acc[i - 1]
            ELSE Append(acc[i - 1], filters[i].field)
    IN  acc[Len(filters)]

Grouped(fs) ==
    LET keys == FilterKeys(fs)
        G[i \in 0 .. Len(keys)] ==
            IF i = 0 THEN <<>>
            ELSE G[i - 1] \o SelectSeq(fs, LAMBDA x : x.field = keys[i])
    IN  G[Len(keys)]

\* the validation of the field names: `regex` is the variable the loop over the
\* filter expressions left behind (unbound when there was no filter)
BadFieldRaised(afields, filters) ==
    IF \A i \in DOMAIN afields : afields[i] \in ValidFields THEN ""
    ELSE IF filters = <<>> THEN "UnboundLocalError"
    ELSE IF filters[Len(filters)].regex # Dash THEN "ValueError"
    ELSE ""

\* ---------------------------------------------- _filter: applying the filters
\* self.marks.get(m, [])
MarksGet(m) == IF m \in DOMAIN marks THEN marks[m] ELSE <<>>

\* fields the modelled items do not carry: i['data'][f] raises KeyError
AbsentFields == {"callNumber", "dateAdded", "dateModified"}

EvalRaises(c, k, af) ==
    IF c.cls \in {"int", "date"} /\ c.field \in AbsentFields THEN "KeyError"
    ELSE IF c.cls = "date" THEN DateErr(items[k].date, "item")
    ELSE IF c.cls = "rank" /\ ranks = <<>> THEN "AttributeError"
    ELSE ""

\* a variant of TagsTruth that looks for a tag of the name of the operand only
TagsTruthNamed(pat, text) == pat \in Range(Split(text, ";"))

\* the lambda of a filter on tags, text being i['data']['tags'] as a string
TagsTruth(pat, text) ==
    \/ (pat \in {Dash, EmptyWord} /\ text = <<>>)
    \/ pat \in Range(Split(text, ";"))

\* the value b of the filter c on the temporary item k, v being the value of the
\* filtered field
TruthOf(c, k, v) ==
    CASE c.cls = "int"   -> Apply(c.op, v.v, c.num)
      [] c.cls = "date"  -> Apply(c.op, Date(items[k].date), c.num)
      [] c.cls = "rank"  ->
            RApply(c.op, IF k \in DOMAIN ranks THEN ranks[k] ELSE RZero, c.rat)
      [] c.cls = "tags"  -> TagsTruth(c.pat, v.v)
      [] c.cls = "empty" ->
            IF c.field = "year" THEN v.t = "int" /\ v.v = SentinelYear
            ELSE v.t = "str" /\ v.v = <<>>
      [] OTHER ->
            Search(c.pat, FormatValue(IF Truthy(v) THEN v ELSE VStr(<<>>), c.field))

\* the value b of one filter on one temporary item
Truth(c, k, af) == TruthOf(c, k, Get(k, c.field, af))

\* a variant of Skips that does not look at the negation
SkipsNoNeg(c, k, af) == ~Truth(c, k, af)

\* [not b, b][negate]: the filter sets pass_item, and the item is left out
Skips(c, k, af) == IF c.neg THEN Truth(c, k, af) ELSE ~Truth(c, k, af)

\* the first index at which the sequence of booleans b is TRUE, or 0
FirstTrue(b) ==
    IF \E i \in DOMAIN b : b[i]
    THEN CHOOSE i \in DOMAIN b : b[i] /\ \A j \in 1 .. (i - 1) : ~b[j]
    ELSE 0


\* one filter on one item: what it raises, "skip" if it sets pass_item, or "pass"
FilterResult(c, k, af) ==
    IF EvalRaises(c, k, af) # "" THEN EvalRaises(c, k, af)
    ELSE IF Skips(c, k, af) THEN "skip"
    ELSE "pass"

\* a variant of Decide that leaves an item out only when every filter does
DecideAny(rs, ignored) ==
    LET first == FirstTrue([i \in DOMAIN rs |-> rs[i] \notin {"pass", "skip"}])
    IN  IF first # 0 THEN rs[first]
        ELSE IF rs # <<>> /\ \A i \in DOMAIN rs : rs[i] = "skip" THEN "skip"
        ELSE IF ignored THEN "skip"
        ELSE "yield"

\* the loops over the filters, rs being what each gives in turn: the first filter that
\* raises or sets pass_item ends them; then the test of the ignore mark
Decide(rs, ignored) ==
    LET first == FirstTrue([i \in DOMAIN rs |-> rs[i] # "pass"])
    IN  IF first # 0 THEN rs[first]
        ELSE IF ignored THEN "skip"
        ELSE "yield"

\* one turn of the loop over self.items: the derived fields, then the loops over
\* _filters.items(): "yield", "skip", or what is raised
ItemOutcome(g, k, af, force) ==
    IF DeriveRaises(k, af) # "" THEN DeriveRaises(k, af)
    ELSE Decide([i \in DOMAIN g |-> FilterResult(g[i], k, af)],
                k \in Range(MarksGet("ignore")) /\ ~force)

\* _filter(fields, filters, force), consumed to its end: the keys yielded, in the
\* order of self.items, or the exception raised
FilterEnd(cs, bad, badField, out) ==
    LET firstRaise == FirstTrue([k \in Keys |-> out[k] \notin {"yield", "skip"}])
    IN  IF bad # 0 THEN [err |-> cs[bad].err, keys |-> <<>>]
        ELSE IF badField # "" THEN [err |-> badField, keys |-> <<>>]
        ELSE IF firstRaise # 0 THEN [err |-> out[firstRaise], keys |-> <<>>]
        ELSE [err |-> "", keys |-> SelectKeys([k \in Keys |-> out[k] = "yield"])]

FilterWith(cs, afs, filters, force) ==
    FilterEnd(cs,
              FirstTrue([i \in DOMAIN cs |-> cs[i].err # ""]),
              BadFieldRaised(afs, filters),
              [k \in Keys |-> ItemOutcome(Grouped(cs), k, Range(afs), force)])

Filter(fields, filters, force) ==
    FilterWith(MakeFilters(filters), fields \o FilterKeys(filters), filters, force)

\* ------------------------------------------------- _items: the ranking loop
\* a variant of AddLinks that takes the contributions of the older items
RECURSIVE AddLinksOlder(_, _, _, _)
AddLinksOlder(rk, k1, links, c) ==
    IF links = <<>> THEN rk
    ELSE LET k2  == Head(links)
             add == /\ k2 \in Range(c)
                    /\ Date(items[k1].date) >= Date(items[k2].date)
                    /\ References(k2) > 0
         IN  AddLinksOlder(IF add
                           THEN [rk EXCEPT ![k1] =
                                    RAdd(rk[k1], RDiv(rk[k2], Rat(References(k2), 1)))]
                           ELSE rk,
                           k1, Tail(links), c)

\* the inner loop over the links of k1: the contributions added to ranks[k1]
RECURSIVE AddLinks(_, _, _, _)
AddLinks(rk, k1, links, c) ==
    IF links = <<>> THEN rk
    ELSE LET k2  == Head(links)
             add == /\ k2 \in Range(c)
                    /\ Date(items[k1].date) <= Date(items[k2].date)
                    /\ References(k2) > 0
         IN  AddLinks(IF add
                      THEN [rk EXCEPT ![k1] =
                               RAdd(rk[k1], RDiv(rk[k2], Rat(References(k2), 1)))]
                      ELSE rk,
                      k1, Tail(links), c)

\* a variant of PassItem that does not skip the items of year 1900
PassItemNoSkip(rk, k1, c) ==
    LET links == items[k1].rel
        base  == IF \E i \in DOMAIN links : links[i] \in Range(c)
                 THEN ROne ELSE RZero
    IN  AddLinks([rk EXCEPT ![k1] = base], k1, links, c)

\* the body of the loop over self.ranks.keys() for one key
PassItem(rk, k1, c) ==
    IF Year(k1) = SentinelYear THEN rk
    ELSE LET links == items[k1].rel
             base  == IF \E i \in DOMAIN links : links[i] \in Range(c)
                      THEN ROne ELSE RZero
         IN  AddLinks([rk EXCEPT ![k1] = base], k1, links, c)

\* one full pass, the keys in the order of the dict, each reading the scores as
\* they stand when its turn comes
RECURSIVE PassFrom(_, _, _)
PassFrom(rk, todo, c) ==
    IF todo = <<>> THEN rk ELSE PassFrom(PassItem(rk, Head(todo), c), Tail(todo), c)

Pass(rk, c) == PassFrom(rk, c, c)

\* the initial scores
InitRanks(c) ==
    [k \in Range(c) |-> IF Year(k) > SentinelYear THEN Rat(1, Len(c)) ELSE RZero]

\* tuple(self.ranks.values())
Values(rk, c) == [i \in DOMAIN c |-> rk[c[i]]]

\* ------------------------------------------------ _items: damping, normalizing
DtSet(c) == {Date(items[k].date) : k \in Range(c)} \ {DtZero}

DampFactor(k, c, order) ==
    LET dt   == DtSet(c)
        mx   == IMax(dt)
        rng  == (mx - IMin(dt)) \div 10
        mn   == IMin(dt) - (IF rng > 1 THEN rng ELSE 1)
    IN  RPow(Rat(Date(items[k].date) - mn, mx - mn), order)

Damped(rk, c, order) == [k \in DOMAIN rk |-> RMul(DampFactor(k, c, order), rk[k])]

\* a variant of Normalized that divides by the first score met
NormalizedByFirst(rk) ==
    LET mx == rk[CHOOSE k \in DOMAIN rk : TRUE]
    IN  [k \in DOMAIN rk |-> IF mx # RZero THEN RDiv(rk[k], mx) ELSE RZero]

Normalized(rk) ==
    LET mx == RMax({rk[k] : k \in DOMAIN rk})
    IN  [k \in DOMAIN rk |-> IF mx # RZero THEN RDiv(rk[k], mx) ELSE RZero]

\* ------------------------------------------------------- ZoteroCLI.sort
\* the characters of the model, in the order of their code points
Alphabet == <<" ", "-", ".", "0", "1", "2", "3", "4", "5", "6", "7", "8", "9", ";",
              "<", "=", ">", "A", "B", "J", "K", "T", "a", "b", "c", "e", "h", "i",
              "j", "k", "l", "m", "n", "o", "p", "r", "t", "u", "x", "y", "{", "}">>
Ord(c) == CHOOSE i \in DOMAIN Alphabet : Alphabet[i] = c

RECURSIVE StrLess(_, _)
StrLess(a, b) ==
    IF b = <<>> THEN FALSE
    ELSE IF a = <<>> THEN TRUE
    ELSE IF Head(a) = Head(b) THEN StrLess(Tail(a), Tail(b))
    ELSE Ord(Head(a)) < Ord(Head(b))

\* the title branch: lower case, a leading article dropped
TitleKey(s) ==
    LET l == Lower(s)
        w == SelectSeq(Split(l, " "), LAMBDA x : x # <<>>)
    IN  IF Len(w) > 1 /\ w[1] \in {<<"a">>, <<"a", "n">>, <<"t", "h", "e">>}
        THEN Join(<<" ">>, Tail(w))
        ELSE l

\* ZoteroCLI.sort(value, field): the canonical comparison key
SortKey(v, field) ==
    IF StartsWithDate(field) THEN
        [t |-> "ts", v |-> IF v.t = "date" THEN Date(v.v) ELSE DtZero]
    ELSE IF field \in INTEGER_FIELDS THEN
        [t |-> "num", v |-> IF v.t = "int" THEN Rat(v.v, 1)
                            ELSE IF v.t = "rat" THEN v.v
                            ELSE Rat(0 - 1, 1)]
    ELSE IF field = "title" THEN [t |-> "str", v |-> TitleKey(v.v)]
    ELSE [t |-> "str", v |-> Lower(IF v.t = "none" THEN <<"N", "o", "n", "e">> ELSE v.v)]

KeyLess(a, b) ==
    CASE a.t = "ts"  -> a.v < b.v
      [] a.t = "num" -> RLt(a.v, b.v)
      [] OTHER       -> StrLess(a.v, b.v)

\* sorted(seq, key=...): stable; kf maps each element to its comparison key
RECURSIVE InsertByKey(_, _, _)
InsertByKey(sorted, x, kf) ==
    IF sorted = <<>> THEN <<x>>
    ELSE IF KeyLess(kf[x], kf[sorted[Len(sorted)]])
        THEN Append(InsertByKey(SubSeq(sorted, 1, Len(sorted) - 1), x, kf),
                    sorted[Len(sorted)])
        ELSE Append(sorted, x)

RECURSIVE SortedFrom(_, _, _)
SortedFrom(done, todo, kf) ==
    IF todo = <<>> THEN done
    ELSE SortedFrom(InsertByKey(done, Head(todo), kf), Tail(todo), kf)

Sorted(seq, kf) == SortedFrom(<<>>, seq, kf)

\* --------------------------------------------------- _items: the arguments
NoLimit == [set |-> FALSE, colon |-> FALSE, pre |-> "", field |-> "", num |-> <<>>]
\* the limit "N"
LimitN(num) == [set |-> TRUE, colon |-> FALSE, pre |-> "", field |-> "", num |-> num]
\* the limit "[<|>]field:N"
LimitOn(pre, field, num) ==
    [set |-> TRUE, colon |-> TRUE, pre |-> pre, field |-> field, num |-> num]

PowTokens == <<"rank^1", "rank^2", "rank^3", "rank^4", "rank^5", "rank^6", "rank^7",
               "rank^8", "rank^9">>
\* re.match(r"rank(\*|\^[1-9])$", f)
IsRankToken(f) == f = "rank*" \/ f \in Range(PowTokens)
\* a variant of TokenOrder that leaves the order at its default
TokenOrderDefault(f) == DefaultOrder
\* int(m.group(1).lstrip("^"))
TokenOrder(f) == CHOOSE i \in DOMAIN PowTokens : PowTokens[i] = f

\* a variant of ExpandLimit that does not read the "<" or ">" of the limit
ExpandLimitNoPrefix(limit, sort, desc, age) ==
    LET split  == limit.set /\ limit.colon
        lfield == IF split THEN limit.field ELSE sort
        star   == split /\ lfield = "rank*"
        bad    == ~IsIntText(limit.num) \/ StrToInt(limit.num) <= 0
    IN  [err    |-> IF ~limit.set THEN ""
                    ELSE IF split /\ limit.pre = "" /\ limit.field = "" THEN "IndexError"
                    ELSE IF bad THEN "ValueError" ELSE "",
         limit  |-> IF limit.set /\ ~bad THEN StrToInt(limit.num) ELSE 0,
         lfield |-> IF star THEN "rank" ELSE lfield,
         lfdesc |-> desc,
         age    |-> IF star THEN FALSE ELSE age]

\* _expand_limit(limit, sort, desc, age); limit 0 stands for None
ExpandLimit(limit, sort, desc, age) ==
    LET split  == limit.set /\ limit.colon
        lfdesc == IF split /\ limit.pre # "" THEN limit.pre = ">" ELSE desc
        lfield == IF split THEN limit.field ELSE sort
        star   == split /\ lfield = "rank*"
        bad    == ~IsIntText(limit.num) \/ StrToInt(limit.num) <= 0
    IN  [err    |-> IF ~limit.set THEN ""
                    ELSE IF split /\ limit.pre = "" /\ limit.field = "" THEN "IndexError"
                    ELSE IF bad THEN "ValueError" ELSE "",
         limit  |-> IF limit.set /\ ~bad THEN StrToInt(limit.num) ELSE 0,
         lfield |-> IF star THEN "rank" ELSE lfield,
         lfdesc |-> lfdesc,
         age    |-> IF star THEN FALSE ELSE age]

AppendMissing(s, more) ==
    LET acc[i \in 0 .. Len(more)] ==
            IF i = 0 THEN s
            ELSE IF more[i] \in Range(acc[i - 1]) THEN acc[i - 1]
            ELSE Append(acc[i - 1], more[i])
    IN  acc[Len(more)]

RankDeps == <<"rank", "title", "citations", "references", "year", "zscc">>

\* _items up to the selection of the fields: the locals
Locals(a) ==
    LET sort   == IF a.sort = "" THEN a.fields[1] ELSE a.sort
        ti     == FirstTrue([i \in DOMAIN a.fields |-> IsRankToken(a.fields[i])])
        age0   == ~(ti # 0 /\ a.fields[ti] = "rank*")
        order  == IF ti # 0 /\ a.fields[ti] # "rank*"
                  THEN TokenOrder(a.fields[ti]) ELSE DefaultOrder
        fields == IF ti = 0 THEN a.fields ELSE [a.fields EXCEPT ![ti] = "rank"]
        el     == ExpandLimit(a.limit, sort, a.desc, age0)
        need   == \/ "rank" \in Range(fields)
                  \/ el.lfield = "rank"
                  \/ sort = "rank"
                  \/ \E i \in DOMAIN a.filters :
                         a.filters[i].field = "rank" /\ ~a.filters[i].pad
        ff1    == AppendMissing(fields, <<sort>>)
        ff2    == IF need THEN AppendMissing(ff1, RankDeps) ELSE ff1
    IN  [err     |-> el.err,
         fields  |-> fields,
         ffields |-> AppendMissing(ff2, <<el.lfield>>),
         sort    |-> sort,
         limit   |-> el.limit,
         lfield  |-> el.lfield,
         lfdesc  |-> el.lfdesc,
         age     |-> el.age,
         order   |-> order]

NoLocals == Locals([fields |-> <<"title">>, filters |-> <<>>, sort |-> "",
                    desc |-> FALSE, limit |-> NoLimit])

\* the filters of the first call of _filter: those on rank are left out, which
\* re.match(r"\~?rank\:", f) finds; it finds no filter on rank whose name is padded
NonRank(filters) == SelectSeq(filters, LAMBDA f : ~(f.field = "rank" /\ ~f.pad))

\* the afields of the first and of the second call of _filter
Af1 == Range(loc.ffields) \cup Range(FilterKeys(NonRank(q.filters)))
Af2 == Range(loc.ffields) \cup Range(FilterKeys(q.filters))

\* ------------------------------------------------------ what a call gives
Res(kind, exc, keys, rows) == [kind |-> kind, exc |-> exc, keys |-> keys, rows |-> rows]
NoRes == Res("none", "", <<>>, <<>>)
Raise(exc) == Res("raise", exc, <<>>, <<>>)

\* ------------------------------------------- _items: limit, sort and rows
Ranked == "rank" \in Range(loc.ffields)

RankGet(k) == IF k \in DOMAIN ranks THEN ranks[k] ELSE RZero

\* i['data'].get(f) once the ranks are attached to the items
GetFinal(k, f) ==
    IF f = "rank" /\ Ranked THEN VRat(RankGet(k)) ELSE Get(k, f, Af2)

\* a variant of Relevant that deletes no item
RelevantAll(c, force) == c

\* the items left once the irrelevant ones are deleted
Relevant(c, force) ==
    IF force THEN c
    ELSE SelectSeq(c, LAMBDA k : k \notin Range(MarksGet("irrelevant")))

\* d.get(f, "-")
OrDash(v) == IF v.t = "none" THEN VStr(Dash) ELSE v

KeysBy(c, field) == [k \in Range(c) |-> SortKey(OrDash(GetFinal(k, field)), field)]

\* a variant of Limited that cuts the items sorted on the sort field
LimitedOnSort(c) ==
    IF loc.limit = 0 THEN c
    ELSE LET sel == Sorted(c, KeysBy(c, loc.sort))
         IN  Take(IF q.desc THEN Reverse(sel) ELSE sel, loc.limit)

\* the limit: the items sorted on the limit field, reversed if descending, cut
Limited(c) ==
    IF loc.limit = 0 THEN c
    ELSE LET sel == Sorted(c, KeysBy(c, loc.lfield))
         IN  Take(IF loc.lfdesc THEN Reverse(sel) ELSE sel, loc.limit)

\* the cell of the value v of the field f
CellOf(v, f) ==
    IF ~Truthy(v) THEN VStr(Dash)
    ELSE IF v.t = "date" THEN v
    ELSE VStr(FormatValue(v, f))

\* one cell of a row
Cell(k, f) == CellOf(GetFinal(k, f), f)

Row(k) == [i \in DOMAIN loc.fields |-> Cell(k, loc.fields[i])]

\* all(x in ".-" for x in row[1:]) on a row of more than one cell
Dropped(row) ==
    /\ Len(row) > 1
    /\ \A i \in 2 .. Len(row) :
           row[i].t = "str" /\ row[i].v \in {<<>>, <<".">>, <<"-">>, <<".", "-">>}

\* the keys of the rows returned, in their order
Ordered(lim) ==
    LET kept == SelectSeq(Sorted(lim, KeysBy(lim, loc.sort)), LAMBDA k : ~Dropped(Row(k)))
    IN  IF q.desc THEN Reverse(kept) ELSE kept

FinalKeys(c) == Ordered(Limited(Relevant(c, q.force)))

\* what ZoteroCLI.sort raises as the key of sorted() over the items c on field
SortKeyRaises(c, field) ==
    IF StartsWithDate(field) /\ \E k \in Range(c) : GetFinal(k, field) = VDate(BadDate)
    THEN DateErr(BadDate, "str")
    ELSE ""

\* what the two sorts raise: that of the limit over the items pool, then that of
\* the rows over the items the limit left
SortRaises(pool) ==
    IF loc.limit # 0 /\ SortKeyRaises(pool, loc.lfield) # ""
        THEN SortKeyRaises(pool, loc.lfield)
    ELSE SortKeyRaises(Limited(pool), loc.sort)

\* ------------------------------------------------------------- the actions
MarkerOf(m) ==
    LET i == FirstTrue([j \in DOMAIN MARKERS |-> m \in Range(MARKERS[j])])
    IN  IF i = 0 THEN m ELSE MARKERS[i][1]

Negated(m) == \E i \in DOMAIN MARKERS : m = MARKERS[i][2]

\* a variant of CallEnd in which _filter formats the data of the cached items in
\* place instead of building temporary items
CallEndInPlace(a, l, fr) ==
    /\ q' = a
    /\ loc' = l
    /\ marks' = IF a.caller = "mark" /\ MarkerOf(a.marker) \notin DOMAIN marks
                THEN [m \in DOMAIN marks \cup {MarkerOf(a.marker)} |->
                         IF m \in DOMAIN marks THEN marks[m] ELSE <<>>]
                ELSE marks
    /\ items' = IF /\ l.err = ""
                   /\ fr.err = ""
                   /\ "itemType" \in Range(l.ffields \o FilterKeys(NonRank(a.filters)))
                THEN [k \in Keys |->
                         [items[k] EXCEPT !.itemType = FormatItemType(items[k].itemType)]]
                ELSE items
    /\ IF l.err # "" THEN
           /\ res' = Raise(l.err) /\ pc' = "done" /\ cand' = <<>>
       ELSE IF fr.err # "" THEN
           /\ res' = Raise(fr.err) /\ pc' = "done" /\ cand' = <<>>
       ELSE IF Len(fr.keys) = 0 THEN
           /\ res' = Res("pair", "", <<>>, <<>>) /\ pc' = "done" /\ cand' = <<>>
       ELSE
           /\ res' = NoRes
           /\ cand' = fr.keys
           /\ pc' = IF "rank" \in Range(l.ffields) THEN "rank" ELSE "select"
    /\ UNCHANGED <<ranks, prev, n, conv, cache, objs>>

\* _items from the end of its first call of _filter, which gave fr
CallEnd(a, l, fr) ==
    /\ q' = a
    /\ loc' = l
    /\ marks' = IF a.caller = "mark" /\ MarkerOf(a.marker) \notin DOMAIN marks
                THEN [m \in DOMAIN marks \cup {MarkerOf(a.marker)} |->
                         IF m \in DOMAIN marks THEN marks[m] ELSE <<>>]
                ELSE marks
    /\ IF l.err # "" THEN
           /\ res' = Raise(l.err) /\ pc' = "done" /\ cand' = <<>>
       ELSE IF fr.err # "" THEN
           /\ res' = Raise(fr.err) /\ pc' = "done" /\ cand' = <<>>
       ELSE IF Len(fr.keys) = 0 THEN
           /\ res' = Res("pair", "", <<>>, <<>>) /\ pc' = "done" /\ cand' = <<>>
       ELSE
           /\ res' = NoRes
           /\ cand' = fr.keys
           /\ pc' = IF "rank" \in Range(l.ffields) THEN "rank" ELSE "select"
    /\ UNCHANGED <<items, ranks, prev, n, conv, cache, objs>>

CallWith(a, l) == CallEnd(a, l, Filter(l.ffields, NonRank(a.filters), a.force))

\* a command starts: count, show or mark calls _items, which runs to the end of its
\* first call of _filter
Call(a) == pc = "idle" /\ CallWith(a, Locals(a))

\* a variant of RankInit that keeps the score self.ranks holds for a candidate
RankInitKeep ==
    /\ pc = "rank"
    /\ ranks' = [k \in Range(cand) |->
                    IF k \in DOMAIN ranks THEN ranks[k] ELSE InitRanks(cand)[k]]
    /\ prev' = Values(ranks', cand)
    /\ n' = 0
    /\ conv' = FALSE
    /\ pc' = "iterate"
    /\ UNCHANGED <<items, marks, q, loc, cand, res, cache, objs>>

\* the initial scores
RankInit ==
    /\ pc = "rank"
    /\ ranks' = InitRanks(cand)
    /\ prev' = Values(InitRanks(cand), cand)
    /\ n' = 0
    /\ conv' = FALSE
    /\ pc' = "iterate"
    /\ UNCHANGED <<items, marks, q, loc, cand, res, cache, objs>>

\* a variant of RankPass whose loop runs once more
RankPassOnceMore ==
    /\ pc = "iterate"
    /\ LET new == Pass(ranks, cand)
       IN  /\ ranks' = new
           /\ n' = n + 1
           /\ IF Values(new, cand) = prev
              THEN conv' = TRUE /\ prev' = prev /\ pc' = "damp"
              ELSE /\ conv' = FALSE
                   /\ prev' = Values(new, cand)
                   /\ pc' = IF n + 1 < Len(cand) + 1 THEN "iterate" ELSE "damp"
    /\ UNCHANGED <<items, marks, q, loc, cand, res, cache, objs>>

\* a variant of RankPass whose loop is left after its first turn
RankPassOnce ==
    /\ pc = "iterate"
    /\ LET new == Pass(ranks, cand)
       IN  /\ ranks' = new
           /\ n' = n + 1
           /\ conv' = (Values(new, cand) = prev)
           /\ prev' = IF Values(new, cand) = prev THEN prev ELSE Values(new, cand)
           /\ pc' = "damp"
    /\ UNCHANGED <<items, marks, q, loc, cand, res, cache, objs>>

\* one turn of the loop `for n in range(len(self.ranks))`, with its test of convergence
RankPass ==
    /\ pc = "iterate"
    /\ LET new == Pass(ranks, cand)
       IN  /\ ranks' = new
           /\ n' = n + 1
           /\ IF Values(new, cand) = prev
              THEN conv' = TRUE /\ prev' = prev /\ pc' = "damp"
              ELSE /\ conv' = FALSE
                   /\ prev' = Values(new, cand)
                   /\ pc' = IF n + 1 < Len(cand) THEN "iterate" ELSE "damp"
    /\ UNCHANGED <<items, marks, q, loc, cand, res, cache, objs>>

\* `if age:` the damping of the scores by the age of the items
Damp ==
    /\ pc = "damp"
    /\ IF ~loc.age THEN
           /\ pc' = "normalize" /\ UNCHANGED <<ranks, res>>
       ELSE IF "date" \notin Af1 THEN
           /\ pc' = "done" /\ res' = Raise("KeyError") /\ UNCHANGED ranks
       ELSE IF DtSet(cand) = {} THEN
           /\ pc' = "done" /\ res' = Raise("ValueError") /\ UNCHANGED ranks
       ELSE
           /\ pc' = "normalize" /\ ranks' = Damped(ranks, cand, loc.order)
           /\ UNCHANGED res
    /\ UNCHANGED <<items, marks, q, loc, cand, prev, n, conv, cache, objs>>

\* the scores divided by the greatest, then logged with title and date
Normalize ==
    /\ pc = "normalize"
    /\ ranks' = Normalized(ranks)
    /\ IF "date" \notin Af1
       THEN pc' = "done" /\ res' = Raise("KeyError")
       ELSE pc' = "refilter" /\ UNCHANGED res
    /\ UNCHANGED <<items, marks, q, loc, cand, prev, n, conv, cache, objs>>

\* _items from the end of its second call of _filter, which gave fr
RefilterEnd(fr) ==
    IF fr.err # "" THEN
        /\ res' = Raise(fr.err) /\ pc' = "done" /\ UNCHANGED cand
    ELSE IF Len(fr.keys) = 0 THEN
        /\ res' = Res("None", "", <<>>, <<>>) /\ pc' = "done" /\ cand' = <<>>
    ELSE
        /\ cand' = fr.keys /\ pc' = "select" /\ UNCHANGED res

\* the second call of _filter, with every filter
Refilter ==
    /\ pc = "refilter"
    /\ RefilterEnd(Filter(loc.ffields, q.filters, q.force))
    /\ UNCHANGED <<items, marks, ranks, q, loc, prev, n, conv, cache, objs>>

\* the pair _items returns, the keys of its rows aside
Rows(ks) == Res("pair", "", ks, [i \in DOMAIN ks |-> Row(ks[i])])

\* the end of _items: what a sort raised, or the rows
SelectEnd(err, ks) == IF err # "" THEN Raise(err) ELSE Rows(ks)

\* the irrelevant items deleted, the limit, the sort, the rows
Select ==
    /\ pc = "select"
    /\ res' = SelectEnd(SortRaises(Relevant(cand, q.force)), FinalKeys(cand))
    /\ pc' = "done"
    /\ UNCHANGED <<items, marks, ranks, q, loc, cand, prev, n, conv, cache, objs>>

\* ------------------------------------------------------------ the commands
\* the filter "[~]field:regex"; pad tells that white space surrounds the name of
\* the field ("field :regex"), which _filter strips
Flt(neg, field, regex) == [neg |-> neg, field |-> field, regex |-> regex, pad |-> FALSE]
FltPad(neg, field, regex) == [neg |-> neg, field |-> field, regex |-> regex, pad |-> TRUE]

\* show FIELDS -f ... -s SORT -l LIMIT: the key is put first
CmdShow(fields, filters, sort, desc, limit) ==
    [caller |-> "show", marker |-> "",
     fields |-> IF "key" \in Range(fields) THEN fields ELSE <<"key">> \o fields,
     filters |-> filters, sort |-> sort, desc |-> desc, limit |-> limit, force |-> FALSE]

\* count -f ...
CmdCount(filters) ==
    [caller |-> "count", marker |-> "", fields |-> <<"title">>, filters |-> filters,
     sort |-> "", desc |-> FALSE, limit |-> NoLimit, force |-> FALSE]

\* mark MARKER -f ...
CmdMark(marker, filters) ==
    [caller |-> "mark", marker |-> marker, fields |-> <<"key">>, filters |-> filters,
     sort |-> "", desc |-> FALSE, limit |-> NoLimit, force |-> TRUE]

\* a variant of MarkRows that appends a key without looking for it in the list
RECURSIVE MarkRowsAppend(_, _, _, _)
MarkRowsAppend(ms, marker, negate, ks) ==
    IF ks = <<>> THEN ms
    ELSE LET k   == Head(ks)
             cur == ms[marker]
             new == IF negate
                    THEN (IF k \in Range(cur)
                          THEN LET i == FirstTrue([j \in DOMAIN cur |-> cur[j] = k])
                               IN  SubSeq(cur, 1, i - 1) \o SubSeq(cur, i + 1, Len(cur))
                          ELSE cur)
                    ELSE Append(cur, k)
         IN  MarkRowsAppend([ms EXCEPT ![marker] = new], marker, negate, Tail(ks))

\* _marks after its call of _items: the keys of the rows marked or unmarked, the
\* empty lists dropped, the marks saved
RECURSIVE MarkRows(_, _, _, _)
MarkRows(ms, marker, negate, ks) ==
    IF ks = <<>> THEN ms
    ELSE LET k   == Head(ks)
             cur == ms[marker]
             new == IF negate
                    THEN (IF k \in Range(cur)
                          THEN LET i == FirstTrue([j \in DOMAIN cur |-> cur[j] = k])
                               IN  SubSeq(cur, 1, i - 1) \o SubSeq(cur, i + 1, Len(cur))
                          ELSE cur)
                    ELSE IF k \in Range(cur) THEN cur ELSE Append(cur, k)
         IN  MarkRows([ms EXCEPT ![marker] = new], marker, negate, Tail(ks))

Marked(ms, marker, negate, ks) ==
    LET upd == MarkRows(ms, marker, negate, ks)
    IN  [m \in {x \in DOMAIN upd : upd[x] # <<>>} |-> upd[m]]

\* _items returns or raises, and its caller goes on: `_, data = self._items(...)`
\* fails on None; _marks marks the rows
Return ==
    /\ pc = "done"
    /\ pc' = "returned"
    /\ res' = IF res.kind = "None" THEN Raise("TypeError") ELSE res
    /\ marks' = IF q.caller = "mark" /\ res.kind = "pair"
                THEN Marked(marks, MarkerOf(q.marker), Negated(q.marker), res.keys)
                ELSE marks
    /\ cache' = IF q.caller = "mark" /\ res.kind = "pair"
                THEN [cache EXCEPT !.marks = marks', !.files = @ \cup {"marks"}]
                ELSE cache
    /\ UNCHANGED <<items, ranks, q, loc, cand, prev, n, conv, objs>>

\* the attributes of the instance that Construct gave, and the cache it left
Started(c) ==
    /\ cache' = c.cache
    /\ objs' = c.objs
    /\ marks' = c.marks

\* main: the command is over and the process ends; the next one builds a new
\* ZoteroCLI from the same cache files
Exit ==
    /\ pc = "returned"
    /\ pc' = "idle"
    /\ Started(Construct(cache, FALSE, FALSE))
    /\ ranks' = <<>>
    /\ q' = CmdCount(<<>>)
    /\ loc' = NoLocals
    /\ cand' = <<>>
    /\ prev' = <<>>
    /\ n' = 0
    /\ conv' = FALSE
    /\ res' = NoRes
    /\ UNCHANGED items

\* the arguments main gives __init__ for the commands reset and update
CmdReset(reset_items) == [caller |-> "reset", reset_items |-> reset_items]
CmdUpdate == [caller |-> "update", reset_items |-> FALSE]

\* the instance is gone with its process: the state of a command that is over
Over(a) ==
    /\ pc' = "returned"
    /\ q' = a
    /\ ranks' = <<>>
    /\ loc' = NoLocals
    /\ cand' = <<>>
    /\ prev' = <<>>
    /\ n' = 0
    /\ conv' = FALSE
    /\ res' = NoRes
    /\ UNCHANGED items

\* main: the process ends and the next one is `reset` or `reset --reset-items`:
\* ZoteroCLI(reset=True, stop=True, reset_items=...), and nothing more
ResetCmd(reset_items) ==
    /\ pc = "returned"
    /\ Started(Construct(cache, TRUE, TRUE))
    /\ Over(CmdReset(reset_items))

\* main: the process ends and the next one is `update`: ZoteroCLI(reset=True), and
\* nothing more
Update ==
    /\ pc = "returned"
    /\ Started(Construct(cache, TRUE, FALSE))
    /\ Over(CmdUpdate)

\* the process ends and, before the next one, the user deletes the cache file of
\* a list of children
Unlink(k) ==
    /\ pc = "returned"
    /\ k \in cache.files
    /\ cache' = [cache EXCEPT !.files = @ \ {k}, !.objects[k] = <<>>]
    /\ objs' = <<>>
    /\ marks' = <<>>
    /\ Over([caller |-> "rm", file |-> k])

\* the command has returned to its caller, which goes on to call another command
\* on the same ZoteroCLI: self.marks and self.ranks are as the command left them
Again ==
    /\ pc = "returned"
    /\ pc' = "idle"
    /\ q' = CmdCount(<<>>)
    /\ loc' = NoLocals
    /\ cand' = <<>>
    /\ prev' = <<>>
    /\ n' = 0
    /\ conv' = FALSE
    /\ res' = NoRes
    /\ UNCHANGED <<items, marks, ranks, cache, objs>>

\* ------------------------------------------------------------ the library
Y(y) == y * TicksPerYear

Title(k) == <<"t">> \o NatToStr(NumItems - k)
Book == <<"b", "o", "o", "k">>
JournalArticle == <<"j", "o", "u", "r", "n", "a", "l", "A", "r", "t", "i", "c", "l", "e">>
TagA == <<"a">>
TagB == <<"b">>
Url == <<"u">>

\* the lists of links of item k: the other items, each at most once, in key order
RelsOf(k) ==
    {SelectKeys([j \in Keys |-> j \in T]) : T \in SUBSET (Keys \ {k})}

Rels == {r \in [Keys -> UNION {RelsOf(k) : k \in Keys}] : \A k \in Keys : r[k] \in RelsOf(k)}

Item(date, rel, tags, itemType, url, title) ==
    [date |-> date, rel |-> rel, tags |-> tags, itemType |-> itemType, url |-> url,
     title |-> title, pages |-> <<>>, children |-> <<>>]

\* the cache directory a run over a library without children leaves
FullCache ==
    [files |-> Range(CACHE_FILES), marks |-> <<>>,
     objects |-> [a \in Range(OBJECTS) |-> <<>>]]

NoObjects == [a \in Range(OBJECTS) |-> <<>>]

InitRest ==
    /\ cache = FullCache
    /\ objs = NoObjects
    /\ marks = <<>>
    /\ ranks = <<>>
    /\ pc = "idle"
    /\ q = CmdCount(<<>>)
    /\ loc = NoLocals
    /\ cand = <<>>
    /\ prev = <<>>
    /\ n = 0
    /\ conv = FALSE
    /\ res = NoRes

Steps == RankInit \/ RankPass \/ Damp \/ Normalize \/ Refilter \/ Select \/ Return \/ Exit

\* ----------------------------------------------- the ranking specification
RankDates == {NoDate, Y(SentinelYear - 1), Y(SentinelYear + 1), Y(SentinelYear + 10)}

RankFilters == {<<>>, <<Flt(FALSE, "year", <<">", "1", "9", "0", "0">>)>>}

RankCalls ==
    {CmdShow(<<"title", r>>, f, s, FALSE, NoLimit) :
        r \in {"rank", "rank*"}, f \in RankFilters, s \in {"date"}}

InitRank ==
    /\ items \in {[k \in Keys |-> Item(d[k], r[k], <<>>, Book, Url, Title(k))] :
                      d \in [Keys -> RankDates], r \in Rels}
    /\ InitRest

NextRank == (\E a \in RankCalls : Call(a)) \/ Steps

SpecRank == InitRank /\ [][NextRank]_vars


\* ---------------------------------------------- the filtering specification
\* three kinds of items: undated and bare; dated, tagged, with a URL; ...
FilterKinds(k) ==
    {Item(NoDate, r, <<>>, Book, <<>>, Title(k)) : r \in {<<>>}} \cup
    {Item(Y(SentinelYear + 1), r, <<TagA>>, JournalArticle, Url, Title(k)) :
        r \in {<<>>, <<(k % NumItems) + 1>>}} \cup
    {Item(Y(SentinelYear + 10), r, <<TagA, TagB>>, Book, Url, Title(k)) :
        r \in {<<(k % NumItems) + 1>>}}

Gt1900 == <<">", "1", "9", "0", "0">>
SinglePool ==
    {Flt(neg, f[1], f[2]) : neg \in BOOLEAN, f \in {
        <<"year", Gt1900>>,
        <<"citations", <<"1">>>>,
        <<"date", Gt1900>>,
        <<"date", Dash>>,
        <<"rank", <<">", "=", "0", ".", "5">>>>,
        <<"tags", TagA>>,
        <<"tags", TagB>>,
        <<"tags", Dash>>,
        <<"tags", EmptyWord>>,
        <<"url", Dash>>,
        <<"url", EmptyWord>>,
        <<"year", Dash>>,
        <<"itemType", Book>>,
        <<"itemType", <<"a", "r", "t">>>>,
        <<"title", <<"t", "0">>>>,
        <<"year", <<"=", ">", "1", "9", "0", "1">>>>,
        <<"year", <<"1", "9", "0", ".">>>>,
        <<"citations", <<"a", "b", "c">>>>,
        <<"date", <<"=", ">", "1", "9", "0", "1">>>>,
        <<"date", <<"1", "9", "0", "1">>>>,
        <<"rank", <<"=", ">", "0", ".", "5">>>>,
        <<"rank", <<">", "1", ".", "0">>>>,
        <<"callNumber", <<"1">>>>,
        <<"bogus", <<"x">>>>,
        <<"bogus", Dash>>}}

PairFirst ==
    {Flt(FALSE, "tags", TagA), Flt(TRUE, "tags", TagA), Flt(FALSE, "itemType", Book),
     Flt(FALSE, "bogus", <<"x">>), Flt(FALSE, "rank", <<">", "=", "0", ".", "5">>)}

PairSecond ==
    {Flt(FALSE, "year", Gt1900), Flt(TRUE, "itemType", Book), Flt(FALSE, "url", Dash),
     Flt(FALSE, "tags", TagB), Flt(FALSE, "url", EmptyWord),
     Flt(TRUE, "year", <<"1", "9", "0", ".">>)}

FilterLists ==
    {<<>>} \cup {<<f>> : f \in SinglePool} \cup {<<f, g>> : f \in PairFirst, g \in PairSecond}

FilterCalls ==
    {CmdShow(<<"title", "date">>, fs, "", FALSE, NoLimit) : fs \in FilterLists}
    \cup {CmdShow(<<"title", "bogus">>, fs, "", FALSE, NoLimit) :
            fs \in {<<>>, <<Flt(FALSE, "url", Dash)>>, <<Flt(FALSE, "url", EmptyWord)>>}}
    \cup {CmdCount(fs) : fs \in {<<>>, <<Flt(FALSE, "rank", <<">", "1", ".", "0">>)>>}}
    \cup {CmdMark(m, <<f>>) : m \in {"ignore", "unignore"},
                               f \in {Flt(FALSE, "tags", TagA), Flt(FALSE, "title", <<"t", "0">>)}}

InitFilter ==
    /\ items \in {i \in [Keys -> UNION {FilterKinds(k) : k \in Keys}] :
                      \A k \in Keys : i[k] \in FilterKinds(k)}
    /\ InitRest

NextFilter == (\E a \in FilterCalls : Call(a)) \/ Steps

SpecFilter == InitFilter /\ [][NextFilter]_vars

\* ------------------------------------------------- the limit specification
LimitDates == {NoDate, Y(SentinelYear + 1), Y(SentinelYear + 5)}

\* the relations of the library: two links at most
LimitRels == {r \in Rels : Len(r[1]) + Len(r[2]) + Len(r[3]) <= 2}

Limits ==
    {NoLimit}
    \cup {LimitN(NatToStr(m)) : m \in 1 .. MaxLimit}
    \cup {LimitOn(">", "rank", NatToStr(m)) : m \in 1 .. MaxLimit}
    \cup {LimitOn("<", "date", NatToStr(m)) : m \in 1 .. MaxLimit}
    \cup {LimitOn("", "title", NatToStr(m)) : m \in 1 .. MaxLimit}

LimitCalls ==
    {CmdShow(<<"title", "date">>, <<>>, s, d, l) :
        s \in {"date", "title"}, d \in BOOLEAN, l \in Limits}

InitLimit ==
    /\ items \in {[k \in Keys |-> Item(d[k], r[k], <<>>, Book, Url, Title(k))] :
                      d \in [Keys -> LimitDates], r \in LimitRels}
    /\ InitRest

NextLimit == (\E a \in LimitCalls : Call(a)) \/ Steps

SpecLimit == InitLimit /\ [][NextLimit]_vars

\* ------------------------------------------- the derived-field specification
DeriveDates == {NoDate, BadDate, Y(SentinelYear - 1), Y(SentinelYear + 1)}

\* the lists of links of the first item: at most two of the other items and of a
\* key that is in no cache file, in any order
DeriveLinks ==
    LET T == (Keys \ {1}) \cup {UnresolvedKey}
    IN  {<<>>} \cup {<<a>> : a \in T} \cup {p \in T \X T : p[1] # p[2]}

DeriveCalls ==
    {CmdShow(f, <<>>, "", FALSE, NoLimit) :
        f \in {<<"title">>, <<"title", "date">>, <<"title", "year">>,
                <<"title", "citations", "references">>, <<"title", "date", "rank">>}}
    \cup {CmdShow(<<"title", "date">>, <<Flt(FALSE, "date", Gt1900)>>, "", FALSE, NoLimit)}
    \cup {CmdShow(<<"title", "date">>, <<>>, "date", d, NoLimit) : d \in BOOLEAN}
    \cup {CmdShow(<<"title">>, <<>>, "", FALSE, LimitOn("<", "date", <<"1">>))}
    \cup {CmdShow(<<"title", "year">>, <<>>, "year", d, NoLimit) : d \in BOOLEAN}

InitDerive ==
    /\ items \in {[k \in Keys |-> Item(d[k], IF k = 1 THEN r ELSE <<>>, <<>>, Book, Url,
                                       Title(k))] :
                      d \in [Keys -> DeriveDates], r \in DeriveLinks}
    /\ InitRest

NextDerive == (\E a \in DeriveCalls : Call(a)) \/ Steps

SpecDerive == InitDerive /\ [][NextDerive]_vars

\* ------------------------------------------------- the marks specification
\* two dated items, the newer citing the older, and an undated one, tagged or not
InitMark ==
    /\ items \in {[k \in Keys |->
                      Item(IF k = 1 THEN Y(SentinelYear + 1)
                           ELSE IF k = 2 THEN Y(SentinelYear + 5) ELSE NoDate,
                           IF k = 2 THEN <<1>> ELSE <<>>,
                           IF k = 1 THEN <<TagA>> ELSE IF k = 2 THEN <<TagA, TagB>> ELSE t,
                           Book, Url, Title(k))] :
                      t \in {<<>>, <<TagA>>}}
    /\ InitRest

MarkFilters ==
    {<<>>, <<Flt(FALSE, "title", <<"t", "0">>)>>, <<Flt(FALSE, "tags", TagA)>>,
     <<Flt(TRUE, "tags", TagB)>>}

MarkCalls ==
    {CmdMark(m, f) : m \in {"irrelevant", "relevant", "ignore", "unignore"},
                     f \in MarkFilters}
    \cup {CmdMark("read", <<Flt(FALSE, "title", <<"t", "0">>)>>)}
    \cup {CmdCount(f) : f \in {<<>>, <<Flt(FALSE, "tags", TagA)>>}}
    \cup {CmdShow(<<"title", "date">>, <<>>, "", FALSE, l) : l \in {NoLimit, LimitN(<<"1">>)}}
    \cup {CmdShow(<<"title", "date", "rank">>, <<Flt(TRUE, "tags", TagB)>>, "", FALSE,
                  NoLimit)}

NextMark == (\E a \in MarkCalls : Call(a)) \/ Steps

SpecMark == InitMark /\ [][NextMark]_vars

\* -------------------------------------- the specification of the marker names
\* _marks with the names of MARKERS and with a name that is none of them, over
\* every item, over those of a title or of a tag, and with a tag that no item
\* has, which makes _filter raise
MarkerArgs == {"read", "unread", "ignore", "seen"}

NoSuchTag == <<"z">>

MarkerCalls ==
    {CmdMark(m, f) : m \in MarkerArgs,
                     f \in {<<>>, <<Flt(FALSE, "title", <<"t", "0">>)>>,
                            <<Flt(FALSE, "tags", TagB)>>,
                            <<Flt(FALSE, "tags", NoSuchTag)>>}}
    \cup {CmdCount(<<>>)}

NextMarker == (\E a \in MarkerCalls : Call(a)) \/ Select \/ Return \/ Exit

SpecMarker == InitMark /\ [][NextMarker]_vars

\* ------------------------------------- the specification of a reused instance
ReuseDates == {NoDate, Y(SentinelYear + 1), Y(SentinelYear + 10)}

ReuseFilters ==
    {<<>>, <<Flt(FALSE, "year", Gt1900)>>, <<Flt(TRUE, "title", <<"t", "0">>)>>}

ReuseCalls ==
    {CmdShow(<<"title", "date", r>>, f, "", FALSE, NoLimit) :
        r \in {"rank", "rank*"}, f \in ReuseFilters}

InitReuse ==
    /\ items \in {[k \in Keys |-> Item(d[k], r[k], <<>>, Book, Url, Title(k))] :
                      d \in [Keys -> ReuseDates], r \in LimitRels}
    /\ InitRest

NextReuse == (\E a \in ReuseCalls : Call(a)) \/ Steps \/ Again

SpecReuse == InitReuse /\ [][NextReuse]_vars

\* --------------------------------------------- the formatter specification
FormatFields == {"tags", "itemType", "rank", "year", "title", "numPages", "attachments",
                 "authors"}

Doe == <<"D", "o", "e">>
Jo == <<"J", "o">>

FormatValues ==
    {VNone, VStr(<<>>), VStr(Dash), VStr(JournalArticle), VStr(<<"a", ";", "b">>),
     VStr(<<"0", ".", "5">>), VStr(<<"1", "9", "0", "0">>),
     VInt(SentinelYear), VInt(0 - 1), VInt(0), VInt(7),
     VRat(Rat(1, 3)), VRat(RZero),
     [t |-> "list", v |-> <<>>], [t |-> "list", v |-> <<TagA>>],
     [t |-> "list", v |-> <<TagA, TagB>>],
     VDict(Doe, <<>>, <<>>), VDict(<<>>, Doe, Jo), VDict(<<>>, Doe, <<>>),
     VDicts(<<VDict(<<>>, Doe, Jo).v, VDict(Jo, <<>>, <<>>).v>>)}

\* the pairs the model can format: a float is a rank, and the field year gets no
\* list and no mapping
FormatInputs ==
    {p \in FormatFields \X FormatValues :
        /\ p[2].t = "rat" => p[1] = "rank"
        /\ p[2].t \in {"list", "dict", "dicts"} => p[1] # "year"
        /\ p[2].t = "dicts" => p[1] \notin {"tags", "itemType"}}

Returned(text) == [kind |-> "return", exc |-> "", v |-> text]

InitFormat ==
    /\ items = [k \in Keys |-> Item(NoDate, <<>>, <<>>, Book, Url, Title(k))]
    /\ cache = FullCache
    /\ objs = NoObjects
    /\ marks = <<>>
    /\ ranks = <<>>
    /\ pc = "format"
    /\ q \in {[field |-> p[1], value |-> p[2]] : p \in FormatInputs}
    /\ loc = NoLocals
    /\ cand = <<>>
    /\ prev = <<>>
    /\ n = 0
    /\ conv = FALSE
    /\ res = NoRes

\* _format_value(q.value, q.field) is called and returns or raises
Format ==
    /\ pc = "format"
    /\ pc' = "formatted"
    /\ res' = IF FormatRaises(q.value, q.field) # ""
              THEN Raise(FormatRaises(q.value, q.field))
              ELSE Returned(FormatValue(q.value, q.field))
    /\ UNCHANGED <<items, marks, ranks, q, loc, cand, prev, n, conv, cache, objs>>

\* the string returned is given to _format_value again, with the same field
Reformat ==
    /\ pc = "formatted"
    /\ res.kind = "return"
    /\ q.value # VStr(res.v)
    /\ pc' = "format"
    /\ q' = [q EXCEPT !.value = VStr(res.v)]
    /\ res' = NoRes
    /\ UNCHANGED <<items, marks, ranks, loc, cand, prev, n, conv, cache, objs>>

NextFormat == Format \/ Reformat

SpecFormat == InitFormat /\ [][NextFormat]_vars

\* ------------------------------------------------- the pages specification
\* the numbers of the pages
PageNums == {0, 7, 10, 15}

PageSeps == {<<"-">>, <<" ", "-", " ">>, <<"-", "-">>}

\* the text "a-b" of a range of pages
PageRange(a, sep, b) == NatToStr(a) \o sep \o NatToStr(b)

\* texts that are neither a number nor a range
PageJunk == {<<"x", "i", "i">>, <<"1", "2", "a">>, <<"-", "5">>,
             <<"1", "0", "-", "1", "5", "-", "2", "0">>, <<"7", "-">>}

PageTexts ==
    {<<>>} \cup {NatToStr(m) : m \in PageNums} \cup PageJunk
    \cup {PageRange(a, sep, b) : a \in PageNums, sep \in PageSeps, b \in PageNums}

PageCalls ==
    {CmdShow(<<"title", "numPages">>, f, s, FALSE, NoLimit) :
        f \in {<<>>, <<Flt(FALSE, "numPages", <<">", "5">>)>>}, s \in {"", "numPages"}}

InitPages ==
    /\ items \in {[k \in Keys |->
                      [Item(NoDate, <<>>, <<>>, Book, Url, Title(k)) EXCEPT
                          !.pages = IF k = 1 THEN p1 ELSE IF k = 2 THEN p2 ELSE <<>>]] :
                      p1 \in {<<>>} \cup {<<t>> : t \in PageTexts},
                      p2 \in {<<>>, <<PageRange(10, <<"-">>, 15)>>}}
    /\ InitRest

\* no query of PageCalls ranks the items
NextPages == (\E a \in PageCalls : Call(a)) \/ Select \/ Return \/ Exit

SpecPages == InitPages /\ [][NextPages]_vars

\* --------------------------------------------------- the tags specification
\* the tags of an item: none, one, two, or a tag whose name is a dash
TagLists == {<<>>, <<TagA>>, <<TagA, TagB>>, <<Dash>>}

TagFilters ==
    {<<Flt(neg, "tags", t)>> : neg \in BOOLEAN, t \in {Dash, EmptyWord, TagA, TagB}}

TagCalls ==
    {CmdShow(<<"title">>, f, "", FALSE, NoLimit) : f \in TagFilters}
    \cup {CmdMark(m, <<Flt(FALSE, "title", <<"t", "0">>)>>) : m \in {"ignore", "unignore"}}
    \cup {CmdMark("read", <<Flt(FALSE, "tags", Dash)>>)}

InitTags ==
    /\ items \in {[k \in Keys |-> Item(NoDate, <<>>, t[k], Book, Url, Title(k))] :
                      t \in [Keys -> TagLists]}
    /\ InitRest

\* no query of TagCalls ranks the items
NextTags == (\E a \in TagCalls : Call(a)) \/ Select \/ Return \/ Exit

SpecTags == InitTags /\ [][NextTags]_vars

\* -------------------------------------------------- the cache specification
\* the types of the children of an item
ChildLists == {<<>>, <<"attachment">>, <<"attachment", "note">>, <<"note", "annotation">>}

\* a cache directory without a file
EmptyCache == [files |-> {}, marks |-> <<>>, objects |-> NoObjects]

CacheCalls ==
    {CmdShow(<<"title", "numAttachments", "numNotes", "numAnnotations">>, <<>>, "", FALSE,
             NoLimit),
     CmdMark("read", <<Flt(FALSE, "title", <<"t", "0">>)>>)}

\* the first process has built its ZoteroCLI in an empty cache directory
InitCache ==
    /\ items \in {[k \in Keys |->
                      [Item(NoDate, <<>>, <<>>, Book, Url, Title(k)) EXCEPT
                          !.children = c[k]]] : c \in [Keys -> ChildLists]}
    /\ cache = Construct(EmptyCache, FALSE, FALSE).cache
    /\ objs = Construct(EmptyCache, FALSE, FALSE).objs
    /\ marks = <<>>
    /\ ranks = <<>>
    /\ pc = "idle"
    /\ q = CmdCount(<<>>)
    /\ loc = NoLocals
    /\ cand = <<>>
    /\ prev = <<>>
    /\ n = 0
    /\ conv = FALSE
    /\ res = NoRes

NextCache ==
    \/ \E a \in CacheCalls : Call(a)
    \/ Select
    \/ Return
    \/ Exit
    \/ \E ri \in BOOLEAN : ResetCmd(ri)
    \/ Update
    \/ \E k \in Range(OBJECTS) : Unlink(k)

SpecCache == InitCache /\ [][NextCache]_vars

\* -------------------------------------------------- the token specification
TokenDates == {Y(SentinelYear + 1), Y(SentinelYear + 2)}

TokenFields == {"rank", "rank*", "rank^1", "rank^2", "rank^9"}

TokenLimits ==
    {NoLimit} \cup {LimitOn(">", f, <<"1">>) : f \in {"rank", "rank*", "rank^2"}}

TokenCalls ==
    {CmdShow(<<"title", "date", f>>, fs, "", FALSE, l) :
        f \in TokenFields, fs \in {<<>>, <<Flt(FALSE, "url", Dash)>>}, l \in TokenLimits}

\* dated items without a URL, two relations at most
InitToken ==
    /\ items \in {[k \in Keys |-> Item(d[k], r[k], <<>>, Book, <<>>, Title(k))] :
                      d \in [Keys -> TokenDates], r \in LimitRels}
    /\ InitRest

NextToken == (\E a \in TokenCalls : Call(a)) \/ Steps

SpecToken == InitToken /\ [][NextToken]_vars

\* -------------------------------------------------- the order specification
RankGe == <<">", "=", "0", ".", "5">>

OrderFilters ==
    {<<>>,
     <<Flt(FALSE, "rank", RankGe)>>,
     <<Flt(TRUE, "rank", RankGe)>>,
     <<FltPad(FALSE, "rank", RankGe)>>,
     <<Flt(FALSE, "year", Gt1900), Flt(FALSE, "rank", RankGe)>>,
     <<Flt(FALSE, "rank", RankGe), Flt(TRUE, "title", <<"t", "0">>)>>}

OrderCalls ==
    {CmdShow(f, fs, "", FALSE, NoLimit) :
        f \in {<<"title", "date">>, <<"title", "date", "rank">>}, fs \in OrderFilters}
    \cup {CmdShow(<<"title", "date">>, <<>>, "", FALSE, LimitOn(">", "rank", <<"1">>))}

InitOrder ==
    /\ items \in {[k \in Keys |-> Item(d[k], r[k], <<>>, Book, Url, Title(k))] :
                      d \in [Keys -> ReuseDates], r \in LimitRels}
    /\ InitRest

NextOrder == (\E a \in OrderCalls : Call(a)) \/ Steps

SpecOrder == InitOrder /\ [][NextOrder]_vars

\* ================================================================ claims
\* C1: when _items normalizes the scores, damped by age or not, every rank it
\* leaves lies in [0,1], and if some score was positive before the normalization
\* then some item has rank exactly 1.
C1_RankBounds ==
    [][pc = "normalize" =>
          /\ \A k \in DOMAIN ranks' : RLe(RZero, ranks'[k]) /\ RLe(ranks'[k], ROne)
          /\ (\E k \in DOMAIN ranks : RLt(RZero, ranks[k]))
                 => (\E k \in DOMAIN ranks' : ranks'[k] = ROne)]_vars

\* C1 witness: ranks computed with age damping, one item at 1 and another strictly
\* between 0 and 1
C1_Witness ==
    /\ pc = "refilter"
    /\ loc.age
    /\ \E k \in DOMAIN ranks : ranks[k] = ROne
    /\ \E k \in DOMAIN ranks : RLt(RZero, ranks[k]) /\ RLt(ranks[k], ROne)

\* C2: the ranking loop makes at most N passes over the N candidates; it leaves
\* the loop as soon as a pass gives the vector of the pass before, and otherwise
\* after the N-th pass, without error and with the vector of that last pass.
C2_BoundedPasses ==
    [][pc = "iterate" =>
          /\ n' = n + 1
          /\ n' <= Len(cand)
          /\ res' = NoRes
          /\ (Values(ranks', cand) = prev) => (pc' = "damp" /\ conv')
          /\ (Values(ranks', cand) # prev /\ n' = Len(cand))
                 => (pc' = "damp" /\ ~conv' /\ Values(ranks', cand) = prev')
          /\ (Values(ranks', cand) # prev /\ n' < Len(cand)) => pc' = "iterate"]_vars

\* C2 witness: a query whose ranking did not converge within its N passes has
\* returned rows
C2_Witness ==
    /\ pc = "done"
    /\ res.kind = "pair"
    /\ res.keys # <<>>
    /\ Ranked
    /\ ~conv
    /\ n = Cardinality(DOMAIN ranks)
    /\ n >= 2

\* every relation of a candidate goes from a strictly newer to a strictly older item
AcyclicInTime ==
    \A k \in Range(cand) : \A i \in DOMAIN items[k].rel :
        /\ items[k].rel[i] \in Keys
        /\ Date(items[k].date) > Date(items[items[k].rel[i]].date)

\* C3: when every relation goes from a strictly newer to a strictly older item, the
\* ranking loop ends after at most 2 passes with a vector that one more pass would
\* leave as it is; with two candidates or more it ends through the convergence
\* break (a single candidate gets one pass only, which the loop cannot compare).
C3_AcyclicConverges ==
    (pc = "damp" /\ AcyclicInTime) =>
        /\ n <= 2
        /\ Values(Pass(ranks, cand), cand) = Values(ranks, cand)
        /\ Len(cand) >= 2 => conv

\* C3 witness: three candidates in a chain of relations, converged at the second pass
C3_Witness ==
    /\ pc = "damp"
    /\ AcyclicInTime
    /\ Len(cand) = 3
    /\ \E k \in Range(cand) : items[k].rel # <<>>
    /\ conv
    /\ n = 2

\* the call of _filter with every filter of the query has run to its end: what it
\* yielded is cand
FilterDone ==
    \/ pc = "select"
    \/ (pc = "done" /\ res.kind = "pair" /\ cand = <<>> /\ ~Ranked)
    \/ (pc = "done" /\ res.kind = "None")

\* the i-th filter expression of the query holds of item k, its negation counted
Holds(i, k) == ~Skips(MakeFilter(q.filters[i]), k, Af2)

Ignored(k) == k \in Range(MarksGet("ignore")) /\ ~q.force

\* C4 as the specification states it: an item that satisfies one of the filter
\* expressions of the query is yielded by _filter.
C4_AnyFilter ==
    FilterDone =>
        \A k \in Keys : (\E i \in DOMAIN q.filters : Holds(i, k)) => k \in Range(cand)

\* C4, amended: _filter yields an item if and only if every filter expression of
\* the query holds of it, negations counted, and the item is not marked ignore
\* (unless the call forces): the stacked filters are AND-combined.
C4_EveryFilter ==
    FilterDone =>
        \A k \in Keys :
            k \in Range(cand) <=> ((\A i \in DOMAIN q.filters : Holds(i, k)) /\ ~Ignored(k))

\* C4 witness: two filters; one item satisfies both and is yielded, another
\* satisfies one of the two only and is left out
C4_Witness ==
    /\ pc = "select"
    /\ Len(q.filters) = 2
    /\ \E k \in Range(cand) : Holds(1, k) /\ Holds(2, k)
    /\ \E k \in Keys \ Range(cand) : ~Ignored(k) /\ (Holds(1, k) # Holds(2, k))

\* the query of the one filter expression of the running query, negated
NegatedQuery == <<Flt(~q.filters[1].neg, q.filters[1].field, q.filters[1].regex)>>

\* what _filter gives for the negated query on the same items, marks and ranks
NegatedRun == Filter(loc.ffields, NegatedQuery, q.force)

\* C5 as the specification states it: every item is yielded by exactly one of the
\* query of a single filter and the query of its negation.
C5_ExactlyOne ==
    (FilterDone /\ Len(q.filters) = 1 /\ NegatedRun.err = "") =>
        \A k \in Keys : k \in Range(cand) <=> k \notin Range(NegatedRun.keys)

\* C5, amended: every item that is not marked ignore (or every item, when the call
\* forces) is yielded by exactly one of the two queries, and an item marked ignore
\* is yielded by neither.
C5_ExactlyOneUnlessIgnored ==
    (FilterDone /\ Len(q.filters) = 1 /\ NegatedRun.err = "") =>
        \A k \in Keys :
            IF Ignored(k)
            THEN k \notin Range(cand) /\ k \notin Range(NegatedRun.keys)
            ELSE k \in Range(cand) <=> k \notin Range(NegatedRun.keys)

\* C5 witness: a single filter has split the items, none ignored, into those it
\* yields and those its negation yields, while an ignored item is in neither
C5_Witness ==
    /\ pc = "select"
    /\ Len(q.filters) = 1
    /\ NegatedRun.err = ""
    /\ \E k \in Keys : Ignored(k)
    /\ \E k \in Range(cand) : k \notin Range(NegatedRun.keys)
    /\ \E k \in Range(NegatedRun.keys) : k \notin Range(cand)

\* the running query names, as an output field or in a filter that _filter has
\* been given, a field outside the valid fields
NamesBadField ==
    \E f \in Range(loc.ffields) \cup Range(FilterKeys(NonRank(q.filters))) :
        f \notin ValidFields

\* the limit and every filter expression of the first call of _filter are well formed
WellFormed ==
    /\ loc.err = ""
    /\ \A i \in DOMAIN NonRank(q.filters) : MakeFilter(NonRank(q.filters)[i]).err = ""

\* C9: a query that names a field outside the valid fields, its filter expressions
\* being well formed otherwise, ends with ValueError and yields no item, whatever
\* its filters are.
C9_BadFieldRejected ==
    (pc # "idle" /\ NamesBadField /\ WellFormed) =>
        (pc \in {"done", "returned"} /\ res = Raise("ValueError"))

\* C9, the case the code does reject: the last filter expression is not "-"
C9_Witness ==
    /\ pc = "done"
    /\ NamesBadField
    /\ WellFormed
    /\ q.filters # <<>>
    /\ q.filters[Len(q.filters)].regex # Dash
    /\ res = Raise("ValueError")

\* the operand of a filter on a numeric, date or rank field is no comparison (and,
\* where the field has one, no emptiness sentinel)
Malformed(f) ==
    IF f.field = "rank" THEN RankOps(f.regex) = {}
    ELSE IF StartsWithDate(f.field)
        THEN f.regex \notin {Dash, EmptyWord} /\ DateOps(f.regex) = {}
    ELSE /\ f.field \in INTEGER_FIELDS
         /\ f.regex \notin {Dash, EmptyWord}
         /\ IntOps(f.regex) = {}

\* C10: a query with a malformed comparison on a numeric, date or rank field ends
\* with an exception, no item returned.
C10_MalformedRejected ==
    (pc # "idle" /\ loc.err = "" /\ \E i \in DOMAIN q.filters : Malformed(q.filters[i])) =>
        (pc \in {"done", "returned"} /\ res.kind = "raise")

\* C10, a case where the query does abort: a malformed comparison on a date field
C10_Witness ==
    /\ pc = "done"
    /\ Len(q.filters) = 1
    /\ q.filters[1].field = "date"
    /\ Malformed(q.filters[1])
    /\ res = Raise("AttributeError")

\* _items has gone through its limit and its sort and returns rows
SelectDone == pc = "done" /\ res.kind = "pair" /\ cand # <<>>

\* the items the limit is applied to
Pool == Relevant(cand, q.force)

\* a comes strictly before b in the order of the keys kf, descending or ascending
Before(a, b, kf, desc) == IF desc THEN KeyLess(kf[b], kf[a]) ELSE KeyLess(kf[a], kf[b])

\* the rows follow the order of the sort field, in the direction of the query
RowsInSortOrder ==
    \A i \in 1 .. (Len(res.keys) - 1) :
        ~Before(res.keys[i + 1], res.keys[i], KeysBy(Pool, loc.sort), q.desc)

TopRank == q.limit.set /\ q.limit.colon /\ q.limit.pre = ">" /\ q.limit.field = "rank"

C8_EmptyIsPair ==
    /\ (pc = "done" /\ cand = <<>> /\ res.kind # "raise") => res = Res("pair", "", <<>>, <<>>)
    /\ pc = "returned" => res # Raise("TypeError")

\* C8, the path that does return a pair: the filters but those on rank leave no item
C8_Witness ==
    /\ pc = "returned"
    /\ q.filters # <<>>
    /\ cand = <<>>
    /\ res = Res("pair", "", <<>>, <<>>)

\* some item of the library has a date string that is not empty and does not parse
HasBadDate == \E k \in Keys : items[k].date = BadDate

\* the running query parses the date of every item: it derives the year, filters
\* on the date or sorts on the date
ParsesDates ==
    \/ "year" \in Af1
    \/ \E i \in DOMAIN q.filters : q.filters[i].field = "date"
    \/ loc.sort = "date"
    \/ (loc.limit # 0 /\ loc.lfield = "date")

\* C11: a query that parses the date of an item whose date string is not empty and
\* does not parse takes the date for 1900-01-01 and completes: it raises nothing.
C11_BadDateNonFatal ==
    (pc = "done" /\ HasBadDate /\ ParsesDates) => res.kind # "raise"

\* C11, where the bad date does no harm: the query shows the date without parsing it
C11_Witness ==
    /\ pc = "done"
    /\ HasBadDate
    /\ ~ParsesDates
    /\ "date" \in Range(q.fields)
    /\ res.kind = "pair"
    /\ Len(res.keys) = NumItems

\* the positions in the relation list of item k of the targets that resolve and are
\* dated after it (later) or on or before it (not later)
ResolvedLinks(k, later) ==
    {i \in DOMAIN items[k].rel :
        /\ items[k].rel[i] \in Keys
        /\ (Date(items[items[k].rel[i]].date) > Date(items[k].date)) = later}

\* the query has derived the fields citations and references and returned its rows
CountsDone ==
    /\ pc = "done"
    /\ res.kind = "pair"
    /\ {"citations", "references"} \subseteq Af1
    /\ ~HasBadDate

\* C12: citations is the number of the relation targets of the item that resolve
\* and are dated strictly after it, references the number of those that resolve and
\* are dated on or before it; a target that does not resolve changes the count of
\* no other target, wherever it stands in the list.
C12_CountsResolved ==
    CountsDone =>
        \A k \in Keys :
            /\ Get(k, "citations", Af1) = VInt(Cardinality(ResolvedLinks(k, TRUE)))
            /\ Get(k, "references", Af1) = VInt(Cardinality(ResolvedLinks(k, FALSE)))

\* C12, where the counts are right: the target that does not resolve is the last
\* of the list, after a target that is counted
C12_Witness ==
    /\ CountsDone
    /\ Len(items[1].rel) = 2
    /\ items[1].rel[2] = UnresolvedKey
    /\ Get(1, "citations", Af1) = VInt(1)
    /\ Get(1, "citations", Af1) = VInt(Cardinality(ResolvedLinks(1, TRUE)))

MarkedAs(m) == Range(MarksGet(m))

\* item k satisfies every filter expression of the running query
Matches(k) == \A i \in DOMAIN q.filters : Holds(i, k)

\* C14: the rows of a query that does not force hold no item that is currently
\* marked irrelevant or ignore; the forced query of mark returns every item that
\* matches its filters, marked or not, so that relevant and unignore take the
\* matching items out of the irrelevant and ignore lists.
C14_MarkedHidden ==
    /\ (pc = "done" /\ res.kind = "pair" /\ ~q.force) =>
           Range(res.keys) \cap (MarkedAs("irrelevant") \cup MarkedAs("ignore")) = {}
    /\ (pc = "done" /\ res.kind = "pair" /\ q.force) =>
           \A k \in Keys : Matches(k) => k \in Range(res.keys)
    /\ (pc = "returned" /\ res.kind = "pair" /\ q.caller = "mark" /\ Negated(q.marker)) =>
           \A k \in Keys : Matches(k) => k \notin MarkedAs(MarkerOf(q.marker))

\* C14 witness: unignore is about to unmark an item that is marked both ignore and
\* irrelevant, which its forced query has returned
C14_Witness ==
    /\ pc = "done"
    /\ q.marker = "unignore"
    /\ q.filters # <<>>
    /\ \E k \in Range(res.keys) : k \in MarkedAs("ignore") \cap MarkedAs("irrelevant")
    /\ \E k \in Keys : k \notin Range(res.keys)

\* the passes of a ranking that starts from the scores rk, i passes done
RECURSIVE FreshPasses(_, _, _, _)
FreshPasses(rk, pv, c, i) ==
    IF i = Len(c) THEN rk
    ELSE IF Values(Pass(rk, c), c) = pv THEN Pass(rk, c)
    ELSE FreshPasses(Pass(rk, c), Values(Pass(rk, c), c), c, i + 1)

\* the rank vector of a ranking run on its own over the candidates c: a function
\* of the items, their dates and their relations, and of the damping asked for
FreshRanks(c, age, order) ==
    LET run == FreshPasses(InitRanks(c), Values(InitRanks(c), c), c, 0)
    IN  Normalized(IF age THEN Damped(run, c, order) ELSE run)

\* C15: whatever self.ranks holds from the commands run before on the same
\* ZoteroCLI, the rank vector a query computes is the one a ranking run on its own
\* gives for the same candidates, dates and relations.
C15_RanksFresh ==
    (pc = "refilter") => ranks = FreshRanks(cand, loc.age, loc.order)

\* C15 witness: a query is about to rank its candidates on an instance whose
\* self.ranks holds the scores a previous query left for other candidates
C15_Witness ==
    /\ pc = "rank"
    /\ DOMAIN ranks # {}
    /\ DOMAIN ranks # Range(cand)
    /\ \E k \in DOMAIN ranks \cap Range(cand) : ranks[k] # InitRanks(cand)[k]

\* C16: for every field and every value, None included, _format_value returns a
\* string and raises nothing, and for None the string is empty.
C16_FormatTotal ==
    pc = "formatted" =>
        /\ res.kind = "return"
        /\ q.value = VNone => res.v = <<>>

\* C16, where the formatter does return: a value of a kind its field carries
C16_Witness ==
    /\ pc = "formatted"
    /\ q.field = "tags"
    /\ q.value.t = "list"
    /\ res = Returned(<<"a", ";", "b">>)

\* C17: a string that _format_value has returned for a field is returned as it is
\* when it is formatted again for the same field.
C17_FormatIdempotent ==
    (pc = "formatted" /\ res.kind = "return") =>
        /\ FormatRaises(VStr(res.v), q.field) = ""
        /\ FormatValue(VStr(res.v), q.field) = res.v

\* C17 witness: the string got from a camel-case item type or from a float rank
\* has been formatted again
C17_Witness ==
    /\ pc = "formatted"
    /\ res.kind = "return"
    /\ q.field \in {"itemType", "rank"}
    /\ q.value = VStr(res.v)
    /\ res.v \in {<<"j", "o", "u", "r", "n", "a", "l", " ", "a", "r", "t", "i", "c", "l", "e">>,
                   <<"0", ".", "3", "3", "3">>}

\* the item has no date
Undated(k) == items[k].date = NoDate

\* the query has returned its rows sorted on year, ascending, without limit
SortedOnYear == SelectDone /\ loc.sort = "year" /\ ~q.desc /\ loc.limit = 0

\* C18: an item with no date has the year 1900, which shows as "-", and in the rows
\* sorted on year, ascending, it comes before every dated item, those dated before
\* 1900 included.
C18_UndatedFirst ==
    SortedOnYear =>
        /\ \A k \in Range(res.keys) :
               Undated(k) => /\ Get(k, "year", Af2) = VInt(SentinelYear)
                             /\ Cell(k, "year") = VStr(Dash)
        /\ \A i \in DOMAIN res.keys : \A j \in DOMAIN res.keys :
               (Undated(res.keys[i]) /\ ~Undated(res.keys[j])) => i < j

\* C18, where the undated items do come first: every dated item is dated after 1900
C18_Witness ==
    /\ SortedOnYear
    /\ Undated(res.keys[1])
    /\ Cell(res.keys[1], "year") = VStr(Dash)
    /\ \E k \in Range(res.keys) : ~Undated(k)
    /\ \A k \in Range(res.keys) : ~Undated(k) => Year(k) > SentinelYear
    /\ ~Undated(res.keys[Len(res.keys)])

\* the query has derived the field numPages and returned its rows
PagesDone == pc = "done" /\ res.kind = "pair" /\ "numPages" \in Af1

\* the derived field numPages of item k
NumPages(k) == Get(k, "numPages", Af1).v

\* C19: numPages is the absolute difference of the two numbers of a range of pages,
\* the number itself for a single number, and -1 when that is zero, when the item
\* has no pages or when the text is neither; it is never 0 and never below -1.
C19_NumPages ==
    PagesDone =>
        \A k \in Keys :
            /\ Get(k, "numPages", Af1).t = "int"
            /\ NumPages(k) # 0
            /\ NumPages(k) >= 0 - 1
            /\ \A a \in PageNums : \A b \in PageNums : \A sep \in PageSeps :
                   items[k].pages = <<PageRange(a, sep, b)>> =>
                       NumPages(k) = (IF a = b THEN 0 - 1 ELSE Abs(a - b))
            /\ \A a \in PageNums :
                   items[k].pages = <<NatToStr(a)>> =>
                       NumPages(k) = (IF a = 0 THEN 0 - 1 ELSE a)
            /\ items[k].pages \in {<<>>, <<<<>>>>} \cup {<<t>> : t \in PageJunk} =>
                   NumPages(k) = 0 - 1

\* C19 witness: the pages "15 - 10" of one item and "10-15" of another both count
\* for 5, and an item without pages has -1, shown as "-"
C19_Witness ==
    /\ PagesDone
    /\ items[1].pages = <<PageRange(15, <<" ", "-", " ">>, 10)>>
    /\ NumPages(1) = 5
    /\ NumPages(2) = 5
    /\ NumPages(3) = 0 - 1
    /\ q.filters = <<>>
    /\ Cell(3, "numPages") = VStr(Dash)

\* the running query has the one filter [~]tags:regex, negated or not
TagsQuery(neg, regex) == q.filters = <<Flt(neg, "tags", regex)>>

\* the keys of cand are those of the set S
Yields(S) == Range(cand) = S

Untagged == {k \in Keys : items[k].tags = <<>>}

\* C20 as the specification states it: tags:<empty> and tags:- return exactly the
\* items that have no tag, ~tags:<empty> and ~tags:- exactly the items that have a
\* tag, and tags:T with a tag T that no item has is rejected with ValueError.
C20_EmptyTagsExact ==
    \A e \in {Dash, EmptyWord} :
        /\ (FilterDone /\ TagsQuery(FALSE, e)) => Yields(Untagged)
        /\ (FilterDone /\ TagsQuery(TRUE, e)) => Yields(Keys \ Untagged)
        /\ \A neg \in BOOLEAN :
               (pc = "done" /\ TagsQuery(neg, TagB) /\ TagB \notin ValidTags)
                   => res = Raise("ValueError")

\* the items that have no tag or have a tag of the very name e
UntaggedOr(e) == {k \in Keys : items[k].tags = <<>> \/ e \in Range(items[k].tags)}

\* C20, amended: among the items that are not marked ignore (among all of them
\* when the call forces), tags:<empty> and tags:- yield exactly those that have no
\* tag or have a tag named as the operand itself, and the negated filters yield
\* exactly the others; tags:T with a tag T that no item has raises ValueError.
C20_EmptyTagsUnlessIgnored ==
    \A e \in {Dash, EmptyWord} :
        /\ (FilterDone /\ TagsQuery(FALSE, e)) =>
               Yields({k \in UntaggedOr(e) : ~Ignored(k)})
        /\ (FilterDone /\ TagsQuery(TRUE, e)) =>
               Yields({k \in Keys \ UntaggedOr(e) : ~Ignored(k)})
        /\ \A neg \in BOOLEAN :
               (pc = "done" /\ TagsQuery(neg, TagB) /\ TagB \notin ValidTags)
                   => res = Raise("ValueError")

\* C20 witness: tags:<empty> has yielded the items without tag and left out a
\* tagged one and an untagged one that is marked ignore
C20_Witness ==
    /\ pc = "select"
    /\ TagsQuery(FALSE, EmptyWord)
    /\ cand # <<>>
    /\ \A k \in Range(cand) : items[k].tags = <<>>
    /\ \E k \in Keys \ Range(cand) : items[k].tags # <<>>
    /\ \E k \in Keys \ Range(cand) : items[k].tags = <<>> /\ Ignored(k)
\* ------------------------------------------------------------------ C21
\* the cache files of the items and of their children
Children == {"items"} \cup Range(OBJECTS)

\* C21: a reset or an update leaves marks.json and what it holds; `reset
\* --reset-items` removes items.json and the files of the children and keeps
\* collections.json; a plain reset removes collections.json and items.json; an
\* update leaves what a construction in a directory without them leaves.
C21_ResetItemsOnly ==
    [][(pc = "returned" /\ q'.caller \in {"reset", "update"}) =>
          /\ "marks" \in cache.files =>
                 ("marks" \in cache'.files /\ cache'.marks = cache.marks)
          /\ (q'.caller = "reset" /\ q'.reset_items) =>
                 /\ cache'.files \cap Children = {}
                 /\ "collections" \in cache.files => "collections" \in cache'.files
          /\ (q'.caller = "reset" /\ ~q'.reset_items) =>
                 cache'.files \cap ({"collections"} \cup Children) = {}
          /\ q'.caller = "update" =>
                 cache' = Construct([cache EXCEPT !.files = @ \cap {"marks"},
                                                 !.objects = NoObjects],
                                    FALSE, FALSE).cache]_vars

\* C21 witness: `reset --reset-items` has run on a directory that held marks, and
\* collections.json is gone
C21_Witness ==
    /\ pc = "returned"
    /\ q.caller = "reset"
    /\ q.reset_items
    /\ "marks" \in cache.files
    /\ cache.marks # <<>>
    /\ "collections" \notin cache.files

\* ------------------------------------------------------------------ C22
\* the first rank*/rank^K token among the fields asked for, or ""
FieldToken(a) ==
    LET ti == FirstTrue([i \in DOMAIN a.fields |-> IsRankToken(a.fields[i])])
    IN  IF ti = 0 THEN "" ELSE a.fields[ti]

\* the rank*/rank^K token that is the field of the limit, or ""
LimitToken(a) ==
    IF a.limit.set /\ a.limit.colon /\ IsRankToken(a.limit.field) THEN a.limit.field
    ELSE ""

\* the exponent K the token "rank^K" names, 3 for any other text
OrderOf(token) ==
    IF \E i \in 1 .. 9 : PowTokens[i] = token
    THEN CHOOSE i \in 1 .. 9 : PowTokens[i] = token
    ELSE 3

\* the step of _items that damps the scores, or leaves them when age is off
Damps == pc = "damp" /\ pc' = "normalize"

\* C22 as stated: a token given as a field or as the field of the limit sets the
\* damping: "rank*" wherever it is turns it off, "rank^K" wherever it is sets the
\* exponent K (the token of the fields first), and without a token the exponent is 3.
C22_TokenAnywhere ==
    [][Damps =>
          ranks' = IF "rank*" \in {FieldToken(q), LimitToken(q)} THEN ranks
                   ELSE Damped(ranks, cand,
                               OrderOf(IF FieldToken(q) # "" THEN FieldToken(q)
                                       ELSE LimitToken(q)))]_vars

\* C22: "rank*" turns the damping off as a field and as the field of the limit;
\* "rank^K" sets the exponent K as a field only: as the field of the limit it leaves
\* the exponent of the fields (3 without a token there) and stays the name of the
\* limit field, which no item carries.
C22_TokenOfFields ==
    [][/\ Damps =>
              ranks' = IF "rank*" \in {FieldToken(q), LimitToken(q)} THEN ranks
                       ELSE Damped(ranks, cand, OrderOf(FieldToken(q)))
       /\ (pc = "idle" /\ pc' # "idle" /\ LimitToken(q') \in Range(PowTokens)) =>
              /\ loc'.order = OrderOf(FieldToken(q'))
              /\ loc'.lfield = LimitToken(q')
              /\ loc'.lfield \notin ValidFields]_vars

\* C22 witness: the scores were damped with the exponent 2 of a field token, which
\* gives an item another factor than the exponent 3 does
C22_Witness ==
    /\ pc = "normalize"
    /\ FieldToken(q) = "rank^2"
    /\ loc.age
    /\ loc.order = 2
    /\ \E k \in Range(cand) :
           /\ RLt(RZero, ranks[k])
           /\ DampFactor(k, cand, 2) # DampFactor(k, cand, DefaultOrder)

\* ------------------------------------------------------------------ C23
\* one pass in which every item reads the scores rk of the pass before
SnapshotPass(rk, c) == [k \in DOMAIN rk |-> PassItem(rk, k, c)[k]]

\* the loop of the passes made of such passes, i passes done
RECURSIVE SnapshotPasses(_, _, _, _)
SnapshotPasses(rk, pv, c, i) ==
    IF i = Len(c) THEN rk
    ELSE IF Values(SnapshotPass(rk, c), c) = pv THEN SnapshotPass(rk, c)
    ELSE SnapshotPasses(SnapshotPass(rk, c), Values(SnapshotPass(rk, c), c), c, i + 1)

\* the rank vector such a loop gives, damped and normalized as _items does
SnapshotRanks(c, age, order) ==
    LET run == SnapshotPasses(InitRanks(c), Values(InitRanks(c), c), c, 0)
    IN  Normalized(IF age THEN Damped(run, c, order) ELSE run)

\* C23 as stated: for every candidate set and every graph of relations, the rank
\* vector _items computes with its in-place passes is the one the passes on the
\* snapshot of the pass before give.
C23_SnapshotSame ==
    (pc = "refilter") => ranks = SnapshotRanks(cand, loc.age, loc.order)

\* no relation joins two candidates of a known year that have the same date
NoSameDateRelation ==
    \A k1 \in Range(cand) : \A i \in DOMAIN items[k1].rel :
        LET k2 == items[k1].rel[i]
        IN  (k2 \in Range(cand) /\ Year(k1) # SentinelYear /\ Year(k2) # SentinelYear)
                => Date(items[k1].date) # Date(items[k2].date)

\* C23: when no relation joins two candidates of a known year that have the same
\* date, the rank vector _items computes with its in-place passes is the one the
\* passes on the snapshot of the pass before give, whether the loop converges or
\* stops at its bound.
C23_SnapshotSameApart ==
    (pc = "refilter" /\ NoSameDateRelation) =>
        ranks = SnapshotRanks(cand, loc.age, loc.order)

\* C23 witness: ranks computed for three candidates not joined at the same date,
\* whose first in-place pass differs from the first pass on the snapshot; the
\* in-place loop converged, and the third pass on the snapshot still changes the
\* scores, so that loop stops at its bound
C23_Witness ==
    /\ pc = "refilter"
    /\ NoSameDateRelation
    /\ Len(cand) = 3
    /\ conv
    /\ LET s1 == SnapshotPass(InitRanks(cand), cand)
           s2 == SnapshotPass(s1, cand)
       IN  /\ Pass(InitRanks(cand), cand) # s1
           /\ SnapshotPass(s2, cand) # s2
    /\ \E k \in Range(cand) : RLt(RZero, ranks[k]) /\ RLt(ranks[k], ROne)

\* ------------------------------------------------------------------ C24
\* the factors of the candidates that have a date: each in ]0, 1], and 1 for the
\* newest
FactorsInRange ==
    \A k \in Range(cand) :
        items[k].date # NoDate =>
            /\ RLt(RZero, DampFactor(k, cand, loc.order))
            /\ RLe(DampFactor(k, cand, loc.order), ROne)
            /\ (\A j \in Range(cand) : Date(items[j].date) <= Date(items[k].date))
                   => DampFactor(k, cand, loc.order) = ROne

\* C24: when the age damping is applied, it raises nothing whatever the candidate
\* set is, and the factor of every candidate that has a date is strictly positive
\* and at most 1, and is 1 for the newest.
C24_DampDefined ==
    [][(pc = "damp" /\ loc.age) => (pc' = "normalize" /\ FactorsInRange)]_vars

\* C24 witness: the damping of a candidate set in which no item has a date has
\* raised ValueError
C24_Witness ==
    /\ pc = "done"
    /\ res = Raise("ValueError")
    /\ Ranked
    /\ loc.age
    /\ cand # <<>>
    /\ "date" \in Af1
    /\ \A k \in Range(cand) : items[k].date = NoDate

\* ------------------------------------------------------------------ C25
\* the ranking of the candidates cand is under way or just over
Ranking == pc \in {"iterate", "damp", "normalize", "refilter"}

\* the item k has a relation to an item of the candidate set
LinkedIn(k) == \E i \in DOMAIN items[k].rel : items[k].rel[i] \in Range(cand)

\* C25: from the initial scores to the final rank map an item of unset year (1900)
\* has score 0, and after every pass and in the final rank map an item without a
\* relation to an item of the candidate set has score 0: only an item of a known
\* year with a relation into the candidate set has a positive score.
C25_ZeroScores ==
    Ranking =>
        \A k \in Range(cand) :
            /\ Year(k) = SentinelYear => ranks[k] = RZero
            /\ (n >= 1 /\ ~LinkedIn(k)) => ranks[k] = RZero
            /\ (n >= 1 /\ RLt(RZero, ranks[k])) => (Year(k) # SentinelYear /\ LinkedIn(k))

\* C25 witness: the final rank map of three candidates: an undated item related to
\* a candidate and a dated item without a relation have rank 0, a third has a
\* positive rank
C25_Witness ==
    /\ pc = "refilter"
    /\ \E k \in Range(cand) : items[k].date = NoDate /\ LinkedIn(k) /\ ranks[k] = RZero
    /\ \E k \in Range(cand) :
           Year(k) > SentinelYear /\ ~LinkedIn(k) /\ InitRanks(cand)[k] # RZero
                                  /\ ranks[k] = RZero
    /\ \E k \in Range(cand) : RLt(RZero, ranks[k])

\* ------------------------------------------------------------------ C26
\* the query names rank: as a field, as the sort or limit field, or in a filter
InvolvesRank ==
    \/ "rank" \in Range(loc.fields) \cup {loc.sort, loc.lfield}
    \/ \E i \in DOMAIN q.filters : q.filters[i].field = "rank"

\* the filters of the query that are not on rank
RankFree == SelectSeq(q.filters, LAMBDA f : f.field # "rank")

\* the candidates: what every filter but those on rank yields
Candidates == Filter(loc.ffields, RankFree, q.force)

\* C26: in a query that names rank the candidate set is what every filter but
\* those on rank yields; the ranks are computed for these candidates; what the
\* query returns are candidates that the full set of filters yields, each with
\* the rank computed for its key; and no filter on rank is applied before the
\* ranks of the query exist (none raises AttributeError for the missing self.ranks).
C26_RankThenRefilter ==
    (pc # "idle" /\ InvolvesRank /\ loc.err = "") =>
        /\ res.kind = "raise" => res.exc # "AttributeError"
        /\ pc \in {"rank", "iterate", "damp", "normalize", "refilter"} =>
               cand = Candidates.keys
        /\ pc \in {"iterate", "damp", "normalize", "refilter"} =>
               DOMAIN ranks = Range(cand)
        /\ pc = "select" =>
               /\ cand = Filter(loc.ffields, q.filters, q.force).keys
               /\ Range(cand) \subseteq DOMAIN ranks
        /\ (pc = "done" /\ res.kind = "pair" /\ res.keys # <<>>) =>
               /\ Range(res.keys) \subseteq Range(Candidates.keys)
               /\ Range(res.keys) \subseteq DOMAIN ranks
               /\ \A i \in DOMAIN res.keys : \A j \in DOMAIN loc.fields :
                      loc.fields[j] = "rank" =>
                          res.rows[i][j] = CellOf(VRat(ranks[res.keys[i]]), "rank")

\* C26 witness: a ranked query whose filter on rank has a padded name has raised
\* AttributeError in the first call of _filter
C26_Witness ==
    /\ pc = "done"
    /\ "rank" \in Range(loc.fields)
    /\ \E i \in DOMAIN q.filters : q.filters[i].field = "rank" /\ q.filters[i].pad
    /\ res = Raise("AttributeError")
    /\ ranks = <<>>

\* ------------------------------------------------------------------ C27
\* the filter expressions of the query without the last one
ButLast(fs) == SubSeq(fs, 1, Len(fs) - 1)

\* C27: what _filter yields for the filter expressions of the query, it yields
\* for these expressions without the last one too, and of every item it yields
\* every filter expression holds, negations counted.
C27_MoreFiltersFewerItems ==
    (FilterDone /\ q.filters # <<>>) =>
        /\ Range(cand) \subseteq
               Range(Filter(loc.ffields, ButLast(q.filters), q.force).keys)
        /\ \A k \in Range(cand) : \A i \in DOMAIN q.filters : Holds(i, k)

\* C27 witness: _filter has yielded items for a field that no item has and the
\* one filter "url:-", and raises for the same fields without a filter
C27_Witness ==
    /\ pc = "select"
    /\ Len(q.filters) = 1
    /\ q.filters[1].regex = Dash
    /\ \E i \in DOMAIN loc.ffields : loc.ffields[i] \notin ValidFields
    /\ cand # <<>>
    /\ Filter(loc.ffields, <<>>, q.force).err # ""

\* ------------------------------------------------------------------ C28
\* the children of the library whose type makes them members of the list attr
ChildrenIn(attr) ==
    {c \in Keys \X (1 .. 2) :
        c[2] \in DOMAIN items[c[1]].children /\ Plural(items[c[1]].children[c[2]]) = attr}

\* the list holds each of these children once, and nothing else
HoldsOnce(list, attr) ==
    /\ Len(list) = Cardinality(ChildrenIn(attr))
    /\ \A c \in ChildrenIn(attr) : \E i \in DOMAIN list : list[i] = c

\* C28: once __init__ has loaded the data, each of the lists attachments, notes and
\* annotations holds every child of its type once, in memory and in its cache
\* file, so that the numbers of children of an item are those of the library in
\* the process that fetches them and in the processes that read the cache.
C28_ChildrenOnce ==
    pc = "idle" =>
        \A a \in Range(OBJECTS) :
            /\ HoldsOnce(objs[a], a)
            /\ a \in cache.files
            /\ HoldsOnce(cache.objects[a], a)
            /\ \A k \in Keys : NumOf(a, k) = Cardinality({c \in ChildrenIn(a) : c[1] = k})

\* C28 witness: the process that fetched the children shows 3 attachments for an
\* item that has one, which attachments.json holds once
C28_Witness ==
    /\ pc = "done"
    /\ q.caller = "show"
    /\ res.kind = "pair"
    /\ \E i \in DOMAIN res.keys :
           /\ loc.fields[3] = "numAttachments"
           /\ res.rows[i][3] = VStr(<<"3">>)
           /\ Cardinality({c \in ChildrenIn("attachments") : c[1] = res.keys[i]}) = 1
           /\ Len(SelectSeq(cache.objects["attachments"],
                            LAMBDA c : c[1] = res.keys[i])) = 1

\* ------------------------------------------------------------------ C29
\* the names that _marks should accept
MarkerNames == UNION {Range(MARKERS[i]) : i \in DOMAIN MARKERS}

\* the names of the mark sets of MARKERS
MarkSetNames == {MARKERS[i][1] : i \in DOMAIN MARKERS}

\* C29: while _marks runs with a marker that is none of read, unread, irrelevant,
\* relevant, ignore, unignore, the marks and the marks file stay as they are, and
\* _marks ends by raising ValueError; no mark set has a name outside MARKERS.
C29_BadMarkerRaises ==
    [][/\ (q'.caller = "mark" /\ q'.marker \notin MarkerNames /\ pc' # "idle") =>
              /\ marks' = marks
              /\ cache' = cache
              /\ pc' = "returned" => res' = Raise("ValueError")
       /\ DOMAIN marks' \subseteq MarkSetNames
       /\ DOMAIN cache'.marks \subseteq MarkSetNames]_vars

\* the same for the markers of MARKERS: their calls leave no other mark set
C29_KnownMarkers ==
    [][(q'.caller = "mark" /\ q'.marker \in MarkerNames)
           => (DOMAIN marks' \ DOMAIN marks) \subseteq MarkSetNames]_vars

\* C29 witness: _marks has returned from a call with an unknown marker, and the
\* marks file holds a mark set of that name with the items selected
C29_Witness ==
    /\ pc = "returned"
    /\ q.caller = "mark"
    /\ q.marker \notin MarkerNames
    /\ res.kind = "pair"
    /\ q.marker \in DOMAIN cache.marks
    /\ Range(cache.marks[q.marker]) = Range(res.keys)
    /\ res.keys # <<>>
    /\ cache.marks = marks

\* ------------------------------------------------------------------ C30
\* the list of the keys marked m in the marks ms
MarkSet(ms, m) == IF m \in DOMAIN ms THEN ms[m] ELSE <<>>

NoRepeat(l) == \A i, j \in DOMAIN l : l[i] = l[j] => i = j

\* no mark set of ms is empty or holds a key twice
WellKept(ms) == \A m \in DOMAIN ms : ms[m] # <<>> /\ NoRepeat(ms[m])

\* the list l once the keys ks are marked, and once they are unmarked
MarkOnce(l, ks) == l \o SelectSeq(ks, LAMBDA k : k \notin Range(l))
Unmark(l, ks) == SelectSeq(l, LAMBDA k : k \notin Range(ks))

\* C30: marks.json never holds an empty mark set or a key twice in a set. A mark
\* or unmark that selected rows works on the items that match its filters,
\* whatever is marked, and leaves the sets of the other markers as they were; a
\* mark appends the selected keys that the set lacks, so that marking the same
\* selection again changes nothing and unmarking it gives back the set as it was
\* when it held none of them; an unmark takes the selected keys out. A _marks that
\* raises leaves marks.json as it was.
C30_MarkSets ==
    [][/\ WellKept(cache'.marks)
       /\ (pc = "done" /\ q.caller = "mark") =>
              LET M      == MarkerOf(q.marker)
                  before == MarkSet(cache.marks, M)
                  after  == MarkSet(cache'.marks, M)
                  keys   == res.keys
              IN  IF res.kind = "pair" THEN
                      /\ marks' = cache'.marks
                      /\ Range(keys) = {k \in Keys : Matches(k)}
                      /\ \A m \in (DOMAIN cache.marks \cup DOMAIN cache'.marks) \ {M} :
                             MarkSet(cache'.marks, m) = MarkSet(cache.marks, m)
                      /\ ~Negated(q.marker) =>
                             /\ after = MarkOnce(before, keys)
                             /\ MarkOnce(after, keys) = after
                             /\ Range(before) \cap Range(keys) = {} =>
                                    Unmark(after, keys) = before
                      /\ Negated(q.marker) => after = Unmark(before, keys)
                  ELSE cache' = cache]_vars

\* C30 witness: ignore has marked its selection in a set that held other keys, and
\* the set read is stored beside it
C30_Witness ==
    /\ pc = "returned"
    /\ q.caller = "mark"
    /\ q.marker = "ignore"
    /\ res.kind = "pair"
    /\ res.keys # <<>>
    /\ Len(MarkSet(cache.marks, "ignore")) > Len(res.keys)
    /\ "read" \in DOMAIN cache.marks
    /\ marks = cache.marks

====
